---- MODULE Spec2Model ----
(***************************************************************************)
(* Model of the static-site generator: the shared page-shell builder       *)
(* (sidebar.py), the four per-page renderers and the four build drivers    *)
(* (build_index.py, build_research.py, build_publications.py,              *)
(* build_teaching.py).                                                     *)
(*                                                                         *)
(* Markup is a sequence of tokens.  An f-string template becomes the       *)
(* concatenation of its literal pieces (one token per tag or attribute     *)
(* piece; indentation between tags is folded away) and of its interpolated *)
(* values (one token per value, none for the empty string), so that two    *)
(* equal token sequences stand for byte-identical text.  A JSON object is  *)
(* a record whose DOMAIN is the set of keys present; Python's None and the *)
(* empty dict are both the empty record.                                   *)
(***************************************************************************)
EXTENDS Integers, Sequences, FiniteSets, TLC

(***************************************************************************)
(* Bounds of the model.                                                    *)
(***************************************************************************)
MaxLines == 2
MaxPapers == 2
MaxGroups == 2
MaxRuns == 2
MaxAffs == 2
MaxTabs == 2
MaxItems == 3
MaxLinks == 2

(***************************************************************************)
(* Python helpers.                                                         *)
(***************************************************************************)
None == <<>>

HasKey(d, k) == k \in DOMAIN d

\* dict.get(k, default)
Get(d, k, default) == IF HasKey(d, k) THEN d[k] ELSE default

\* truthiness of d.get(k) for a string value / a list value / a dict
TruthyStr(d, k) == HasKey(d, k) /\ d[k] # ""
TruthyList(d, k) == HasKey(d, k) /\ Len(d[k]) > 0
TruthyDict(d) == DOMAIN d # {}

\* an interpolated value inside an f-string
Txt(s) == IF s = "" THEN <<>> ELSE <<s>>

RECURSIVE Concat(_)
Concat(parts) ==
  IF parts = <<>> THEN <<>> ELSE Head(parts) \o Concat(Tail(parts))

RECURSIVE Join_Unique(_, _)
Join_Unique(parts, sep) ==
  IF parts = <<>> THEN <<>>
  ELSE LET rest == SelectSeq(Tail(parts), LAMBDA x : x # Head(parts))
       IN IF rest = <<>> THEN Head(parts)
          ELSE Head(parts) \o Txt(sep) \o Join_Unique(rest, sep)

\* sep.join(parts), parts a sequence of token sequences
RECURSIVE Join(_, _)
Join(parts, sep) ==
  IF parts = <<>> THEN <<>>
  ELSE IF Len(parts) = 1 THEN parts[1]
  ELSE parts[1] \o Txt(sep) \o Join(Tail(parts), sep)

\* str.replace(old, new) on a token sequence, old a single token
RECURSIVE Replace(_, _, _)
Replace(s, old, new) ==
  IF s = <<>> THEN <<>>
  ELSE (IF Head(s) = old THEN new ELSE <<Head(s)>>) \o Replace(Tail(s), old, new)

SeqsUpTo(S, n) == UNION {[1..k -> S] : k \in 0..n}

\* the objects of base, each with or without key k bound to a value of vals
Opt(base, k, vals) == base \cup {r @@ (k :> v) : r \in base, v \in vals}

(***************************************************************************)
(* sidebar.py                                                              *)
(***************************************************************************)
T_avatar_icon == "<i class=\"fas fa-user\"></i>"

_generate_profile_image(profile) ==
  IF TruthyStr(profile, "image")
    THEN <<"<img src=\"">> \o Txt(profile["image"]) \o <<"\" alt=\"">>
         \o Txt(profile["name"]) \o <<"\">">>
    ELSE <<T_avatar_icon>>

T_li == "<li>"
T_li_end == "</li>"
T_a_end == "</a>"
T_link_a_open == "<a href=\""
T_link_a_attrs == "\" target=\"_blank\" rel=\"noopener\">"
T_icon_open == "<i class=\""
T_icon_close == "\" aria-hidden=\"true\"></i> "

SidebarLinkItem_AnchorWhenKey(link) ==
  LET icon == Get(link, "icon", "fas fa-link")
      label == Get(link, "label", "")
  IN IF HasKey(link, "url")
       THEN <<T_li, T_link_a_open>> \o Txt(link["url"]) \o <<T_link_a_attrs>>
            \o <<T_icon_open>> \o Txt(icon) \o <<T_icon_close>> \o Txt(label)
            \o <<T_a_end, T_li_end>>
       ELSE <<T_li, T_icon_open>> \o Txt(icon) \o <<T_icon_close>> \o Txt(label)
            \o <<T_li_end>>

SidebarLinkItem(link) ==
  LET icon == Get(link, "icon", "fas fa-link")
      label == Get(link, "label", "")
  IN IF TruthyStr(link, "url")
       THEN <<T_li, T_link_a_open>> \o Txt(link["url"]) \o <<T_link_a_attrs>>
            \o <<T_icon_open>> \o Txt(icon) \o <<T_icon_close>> \o Txt(label)
            \o <<T_a_end, T_li_end>>
       ELSE <<T_li, T_icon_open>> \o Txt(icon) \o <<T_icon_close>> \o Txt(label)
            \o <<T_li_end>>

_generate_sidebar_links(links) == Join([i \in 1..Len(links) |-> SidebarLinkItem(links[i])], "\n          ")

get_nav_brand(sidebar) == Txt(sidebar["nav_brand"])

T_bio_line_open == "<span class=\"bio-line\">"
T_span_end == "</span>"
T_bio_div_open == "<div class=\"author__bio\">"
T_div_end == "</div>"
T_bio_p_open == "<p class=\"author__bio\">"
T_p_end == "</p>"

BioLine(line) == <<T_bio_line_open>> \o Txt(line) \o <<T_span_end>>

bio_html_ParagraphWrapper(profile) ==
  IF TruthyList(profile, "bio_lines")
    THEN <<T_bio_p_open>> \o Concat([i \in 1..Len(profile["bio_lines"]) |-> BioLine(profile["bio_lines"][i])]) \o <<T_p_end>>
  ELSE IF TruthyStr(profile, "bio")
    THEN <<T_bio_p_open>> \o Txt(profile["bio"]) \o <<T_p_end>>
  ELSE <<>>

bio_html_BothForms(profile) ==
  (IF TruthyList(profile, "bio_lines")
     THEN <<T_bio_div_open>> \o Concat([i \in 1..Len(profile["bio_lines"]) |-> BioLine(profile["bio_lines"][i])]) \o <<T_div_end>>
     ELSE <<>>)
  \o (IF TruthyStr(profile, "bio")
        THEN <<T_bio_p_open>> \o Txt(profile["bio"]) \o <<T_p_end>>
        ELSE <<>>)

bio_html(profile) ==
  IF TruthyList(profile, "bio_lines")
    THEN <<T_bio_div_open>> \o Concat([i \in 1..Len(profile["bio_lines"]) |-> BioLine(profile["bio_lines"][i])]) \o <<T_div_end>>
  ELSE IF TruthyStr(profile, "bio")
    THEN <<T_bio_p_open>> \o Txt(profile["bio"]) \o <<T_p_end>>
  ELSE <<>>

get_sidebar_html(sidebar) ==
  LET profile == sidebar["profile"]
      links == Get(sidebar, "sidebar_links", <<>>)
  IN <<"<aside class=\"sidebar\">", "<div class=\"sidebar-content\">",
       "<div class=\"author__avatar\">">>
     \o _generate_profile_image(profile)
     \o <<T_div_end, "<div class=\"author__content\">", "<h3 class=\"author__name\">">>
     \o Txt(profile["name"]) \o <<"</h3>">>
     \o bio_html(profile)
     \o <<T_div_end, "<div class=\"author__urls-wrapper\">", "<ul class=\"author__urls\">">>
     \o _generate_sidebar_links(links)
     \o <<"</ul>", T_div_end, T_div_end, "</aside>">>

\* the key lookups of get_sidebar_html that raise KeyError
get_sidebar_html_raises(sidebar) ==
  \/ ~HasKey(sidebar, "profile")
  \/ ~HasKey(sidebar["profile"], "name")

get_footer_html(sidebar) ==
  LET footer == sidebar["footer"]
  IN <<"<footer>", "<p class=\"footer-text\">", "(c) ">>
     \o Txt(footer["copyright_year"]) \o <<" ">> \o Txt(footer["copyright_name"])
     \o <<".", T_p_end, "</footer>">>

get_footer_html_raises(sidebar) ==
  \/ ~HasKey(sidebar, "footer")
  \/ ~HasKey(sidebar["footer"], "copyright_year")
  \/ ~HasKey(sidebar["footer"], "copyright_name")

T_nav_a_open == "<a href=\""
T_href_close == "\""
T_active == " class=\"active\""
T_new_tab == " target=\"_blank\" rel=\"noopener\""
T_tag_close == ">"

pages_IndexId(cv_file) ==
  << [page_id |-> "index", href |-> "index.html", label |-> "Biography", new_tab |-> FALSE],
     [page_id |-> "research", href |-> "research.html", label |-> "Research", new_tab |-> FALSE],
     [page_id |-> "publications", href |-> "publications.html", label |-> "Publications", new_tab |-> FALSE],
     [page_id |-> "teaching", href |-> "teaching.html", label |-> "Teaching", new_tab |-> FALSE],
     [page_id |-> "cv", href |-> cv_file, label |-> "CV", new_tab |-> TRUE] >>

pages_TeachingFirst(cv_file) ==
  << [page_id |-> "bio", href |-> "index.html", label |-> "Biography", new_tab |-> FALSE],
     [page_id |-> "research", href |-> "research.html", label |-> "Research", new_tab |-> FALSE],
     [page_id |-> "teaching", href |-> "teaching.html", label |-> "Teaching", new_tab |-> FALSE],
     [page_id |-> "publications", href |-> "publications.html", label |-> "Publications", new_tab |-> FALSE],
     [page_id |-> "cv", href |-> cv_file, label |-> "CV", new_tab |-> TRUE] >>

pages(cv_file) ==
  << [page_id |-> "bio", href |-> "index.html", label |-> "Biography", new_tab |-> FALSE],
     [page_id |-> "research", href |-> "research.html", label |-> "Research", new_tab |-> FALSE],
     [page_id |-> "publications", href |-> "publications.html", label |-> "Publications", new_tab |-> FALSE],
     [page_id |-> "teaching", href |-> "teaching.html", label |-> "Teaching", new_tab |-> FALSE],
     [page_id |-> "cv", href |-> cv_file, label |-> "CV", new_tab |-> TRUE] >>

NavLink_DefaultBio(pg, active_page) ==
  <<T_li, T_nav_a_open>> \o Txt(pg.href) \o <<T_href_close>>
  \o (IF pg.page_id = active_page \/ (active_page = "" /\ pg.page_id = "bio")
        THEN <<T_active>> ELSE <<>>)
  \o (IF pg.new_tab THEN <<T_new_tab>> ELSE <<>>)
  \o <<T_tag_close>> \o Txt(pg.label) \o <<T_a_end, T_li_end>>

NavLink(pg, active_page) ==
  <<T_li, T_nav_a_open>> \o Txt(pg.href) \o <<T_href_close>>
  \o (IF pg.page_id = active_page THEN <<T_active>> ELSE <<>>)
  \o (IF pg.new_tab THEN <<T_new_tab>> ELSE <<>>)
  \o <<T_tag_close>> \o Txt(pg.label) \o <<T_a_end, T_li_end>>

T_nav_sep == "\n        "

get_nav_html(active_page, sidebar) ==
  LET cv_file == IF TruthyDict(sidebar) THEN Get(sidebar, "cv_file", "cv.pdf") ELSE "cv.pdf"
      links == [i \in 1..Len(pages(cv_file)) |-> NavLink(pages(cv_file)[i], active_page)]
  IN Join(links, T_nav_sep)

ThemeGroup_LightForBoth(sidebar, mode) ==
  IF TruthyDict(sidebar) /\ HasKey(sidebar, "theme")
    THEN Get(sidebar["theme"], "light", None)
    ELSE None

\* theme colours of get_base_css: the value the sidebar declares, or the default
ThemeGroup(sidebar, mode) ==
  IF TruthyDict(sidebar) /\ HasKey(sidebar, "theme")
    THEN Get(sidebar["theme"], mode, None)
    ELSE None

get_base_css(sidebar) ==
  LET light == ThemeGroup(sidebar, "light")
      dark == ThemeGroup(sidebar, "dark")
      accent_light == Get(light, "accent_color", "#0D9488")
      accent_hover_light == Get(light, "accent_hover", "#0F766E")
      link_color_light == Get(light, "link_color", "#0066cc")
      link_hover_light == Get(light, "link_hover", "#004499")
      accent_dark == Get(dark, "accent_color", "#2DD4BF")
      accent_hover_dark == Get(dark, "accent_hover", "#5EEAD4")
      link_color_dark == Get(dark, "link_color", "#60A5FA")
      link_hover_dark == Get(dark, "link_hover", "#93C5FD")
  IN <<":root {", "--accent-color: ">> \o Txt(accent_light)
     \o <<"; --accent-hover: ">> \o Txt(accent_hover_light)
     \o <<"; --action-link-color: ">> \o Txt(link_color_light)
     \o <<"; --action-link-hover: ">> \o Txt(link_hover_light)
     \o <<"; }", "/* base styles */", "[data-theme=\"dark\"] {", "--accent-color: ">>
     \o Txt(accent_dark)
     \o <<"; --accent-hover: ">> \o Txt(accent_hover_dark)
     \o <<"; --action-link-color: ">> \o Txt(link_color_dark)
     \o <<"; --action-link-hover: ">> \o Txt(link_hover_dark)
     \o <<"; }", "/* responsive */">>

T_head == "<head>"
T_head_end == "</head>"
T_style == "<style>"
T_style_end == "</style>"

get_base_head_html(title, description, page_css, sidebar) ==
  <<T_head, "<meta charset=\"UTF-8\">", "<meta name=\"viewport\">",
    "<meta name=\"description\" content=\"">> \o Txt(description) \o <<"\">">>
  \o <<"<title>">> \o Txt(title) \o <<"</title>">>
  \o <<"<link fonts>", "<link font-awesome>", "<link academicons>", T_style>>
  \o get_base_css(sidebar)
  \o page_css
  \o <<T_style_end, T_head_end>>

\* backward compatibility wrapper: no page CSS
get_head_html(title, description, sidebar) ==
  get_base_head_html(title, description, <<>>, sidebar)

get_js_code == <<"/* nav toggle, theme toggle */">>

(***************************************************************************)
(* Markup shared by the four page templates.                               *)
(***************************************************************************)
T_doctype == "<!DOCTYPE html>"
T_html == "<html lang=\"en\">"
T_html_end == "</html>"
T_body == "<body>"
T_body_end == "</body>"

\* content["meta"]["title"] / content["meta"]["description"] raise KeyError
meta_raises(content) ==
  \/ ~HasKey(content, "meta")
  \/ ~HasKey(content["meta"], "title")
  \/ ~HasKey(content["meta"], "description")

shell_raises(sidebar) ==
  \/ ~HasKey(sidebar, "nav_brand")
  \/ get_sidebar_html_raises(sidebar)
  \/ get_footer_html_raises(sidebar)

\* <nav> ... </nav> of every page template, nav the output of get_nav_html
NavBar(sidebar, nav) ==
  <<"<nav>", "<div class=\"nav-container\">", "<a href=\"index.html\" class=\"nav-brand\">">>
  \o get_nav_brand(sidebar)
  \o <<T_a_end, "<button class=\"nav-toggle\">", "<ul class=\"nav-links\">">>
  \o nav
  \o <<"</ul>", "<button class=\"theme-toggle\">", T_div_end, "</nav>">>

\* the outer document template of every build_html
Document_OwnHead(head_html, sidebar, nav, main) ==
  <<T_doctype, T_html, T_head>> \o head_html \o <<T_head_end, T_body>>
  \o NavBar(sidebar, nav)
  \o <<"<div class=\"page-wrapper\">">> \o get_sidebar_html(sidebar)
  \o <<"<main class=\"main-content\">">> \o main \o <<"</main>", T_div_end>>
  \o get_footer_html(sidebar)
  \o <<"<script>">> \o get_js_code \o <<"</script>", T_body_end, T_html_end>>

Document(head_html, sidebar, nav, main) ==
  <<T_doctype, T_html>> \o head_html \o <<T_body>>
  \o NavBar(sidebar, nav)
  \o <<"<div class=\"page-wrapper\">">> \o get_sidebar_html(sidebar)
  \o <<"<main class=\"main-content\">">> \o main \o <<"</main>", T_div_end>>
  \o get_footer_html(sidebar)
  \o <<"<script>">> \o get_js_code \o <<"</script>", T_body_end, T_html_end>>

(***************************************************************************)
(* build_index.py                                                          *)
(***************************************************************************)
get_index_css == <<"/* index css */">>

BioParagraph(p) == <<"<p>">> \o Txt(p) \o <<T_p_end>>

generate_bio_paragraphs(bio) == Join([i \in 1..Len(bio) |-> BioParagraph(bio[i])], "\n        ")

\* a logo_icon value is its text cut before the last dot: <<"logo", ".svg">>
ImageExts == {".png", ".jpg", ".jpeg", ".svg", ".gif", ".webp"}

EndsWithImageExt_SvgOnly(logo_icon) ==
  Len(logo_icon) > 0 /\ logo_icon[Len(logo_icon)] = ".svg"

EndsWithImageExt(logo_icon) ==
  Len(logo_icon) > 0 /\ logo_icon[Len(logo_icon)] \in ImageExts

T_logo_bg_open == "<div class=\"affiliation-logo\" style=\"background-image: url('"
T_logo_bg_close == "');\"></div>"
T_logo_glyph_open == "<div class=\"affiliation-logo\"><i class=\"fas "
T_logo_glyph_close == "\"></i></div>"
T_aff_item == "<div class=\"affiliation-item\">"

AffiliationItem(aff) ==
  LET department == Get(aff, "department", <<>>)
      dept_lines == Join([i \in 1..Len(department) |-> Txt(department[i])], "<br>")
      logo_icon == Get(aff, "logo_icon", <<"fa-university">>)
      logo_html == IF EndsWithImageExt(logo_icon)
                     THEN <<T_logo_bg_open>> \o logo_icon \o <<T_logo_bg_close>>
                     ELSE <<T_logo_glyph_open>> \o logo_icon \o <<T_logo_glyph_close>>
  IN <<T_aff_item>> \o logo_html
     \o <<"<div class=\"affiliation-info\">", "<h3>">> \o Txt(aff["institution"])
     \o <<"</h3>", "<p class=\"role\">">> \o Txt(aff["role"])
     \o <<T_p_end, "<p class=\"department\">">> \o dept_lines
     \o <<T_p_end, T_div_end, T_div_end>>

generate_affiliations(affiliations) == Join([i \in 1..Len(affiliations) |-> AffiliationItem(affiliations[i])], "\n        ")

DegreeItem(d) ==
  <<T_li, "<strong>">> \o Txt(d["degree"]) \o <<", ">> \o Txt(d["field"])
  \o <<",</strong> ">> \o Txt(d["institution"]) \o <<", ">> \o Txt(d["location"])
  \o <<T_li_end>>

generate_degrees(degrees) == Join([i \in 1..Len(degrees) |-> DegreeItem(degrees[i])], "\n            ")

NewsItem(n) ==
  <<"<li class=\"news-item\">", "<span class=\"news-date\">">> \o Txt(n["date"])
  \o <<T_span_end, "<span class=\"news-content\">">> \o Txt(n["content"])
  \o <<T_span_end, T_li_end>>

generate_news(news) == Join([i \in 1..Len(news) |-> NewsItem(news[i])], "\n        ")

SponsorItem(sp) ==
  <<"<img src=\"">> \o Txt(sp["logo"]) \o <<"\" alt=\"">> \o Txt(sp["name"])
  \o <<"\" class=\"sponsor-logo\">">>

generate_sponsors(sponsors) == Join([i \in 1..Len(sponsors) |-> SponsorItem(sponsors[i])], "\n          ")

AllHave(list, keys) == \A i \in 1..Len(list) : keys \subseteq DOMAIN list[i]

index_build_html_raises(content, sidebar) ==
  \/ meta_raises(content)
  \/ shell_raises(sidebar)
  \/ ~({"bio", "affiliations", "news"} \subseteq DOMAIN content)
  \/ ~AllHave(content["affiliations"], {"institution", "role"})
  \/ ~AllHave(Get(content, "degrees", <<>>), {"degree", "field", "institution", "location"})
  \/ ~AllHave(content["news"], {"date", "content"})
  \/ ~AllHave(Get(content, "sponsors", <<>>), {"logo", "name"})

index_build_html(content, sidebar) ==
  LET head_html == get_base_head_html(content["meta"]["title"],
                                      content["meta"]["description"],
                                      get_index_css, None)
      main ==
        <<"<section class=\"section\">", "<h2>Biography</h2>">>
        \o generate_bio_paragraphs(content["bio"])
        \o <<"</section>", "<section class=\"section\">", "<h2>Current Affiliations</h2>">>
        \o generate_affiliations(content["affiliations"])
        \o <<"</section>", "<section class=\"section\">", "<h2>Degrees</h2>",
             "<ul class=\"degrees-list\">">>
        \o generate_degrees(Get(content, "degrees", <<>>))
        \o <<"</ul>", "</section>", "<section class=\"section\">", "<h2>News</h2>",
             "<div class=\"news-container\">", "<ul class=\"news-list\">">>
        \o generate_news(content["news"])
        \o <<"</ul>", T_div_end, "</section>", "<section class=\"section\">",
             "<h2>Affiliations &amp; Sponsors</h2>", "<div class=\"sponsors-grid\">">>
        \o generate_sponsors(Get(content, "sponsors", <<>>))
        \o <<T_div_end, "</section>">>
  IN Document(head_html, sidebar, get_nav_html("bio", sidebar), main)

(***************************************************************************)
(* build_research.py                                                       *)
(***************************************************************************)
get_research_css == <<"/* research css */">>

generate_interests_html(interests) == Join([i \in 1..Len(interests) |-> Txt(interests[i])], ", ")

ProjectParagraph(para) == <<"<p>">> \o Txt(para) \o <<T_p_end>>

generate_project_html(project) ==
  LET image_html ==
        IF TruthyStr(project, "image")
          THEN <<"<div class=\"project-image\">", "<img src=\"">> \o Txt(project["image"])
               \o <<"\" alt=\"">> \o Txt(project["title"]) \o <<"\">", T_div_end>>
          ELSE <<>>
      desc_html == Join([i \in 1..Len(project["description"]) |-> ProjectParagraph(project["description"][i])], "\n          ")
  IN <<"<div class=\"project-item\">", "<h3 class=\"project-title\">">>
     \o Txt(project["title"])
     \o <<"</h3>", "<div class=\"project-content\">">> \o image_html
     \o <<"<div class=\"project-description\">">> \o desc_html
     \o <<T_div_end, T_div_end, T_div_end>>

generate_projects_html(projects) == Join([i \in 1..Len(projects) |-> generate_project_html(projects[i])], "\n      ")

research_build_html_raises(content, sidebar) ==
  \/ meta_raises(content)
  \/ shell_raises(sidebar)
  \/ ~({"interests", "projects"} \subseteq DOMAIN content)
  \/ ~AllHave(content["projects"], {"title", "description"})

research_build_html(content, sidebar) ==
  LET head0 == get_head_html(content["meta"]["title"], content["meta"]["description"], None)
      head_html == Replace(head0, T_style_end, get_research_css \o <<T_style_end>>)
      main ==
        <<"<div class=\"research-intro\">", "<h1>Research Interests</h1>",
          "<p class=\"research-interests\">">>
        \o generate_interests_html(content["interests"])
        \o <<T_p_end, T_div_end, "<h2 class=\"projects-heading\">Research Projects</h2>">>
        \o generate_projects_html(content["projects"])
  IN Document(head_html, sidebar, get_nav_html("research", None), main)

(***************************************************************************)
(* build_publications.py                                                   *)
(***************************************************************************)
get_publications_css == <<"/* publications css */">>

IntroLink(link) ==
  <<"<a href=\"">> \o Txt(link["url"]) \o <<"\" target=\"_blank\" rel=\"noopener\">[">>
  \o Txt(link["label"]) \o <<"]</a>">>

generate_intro_links(links) == Join([i \in 1..Len(links) |-> IntroLink(links[i])], " / ")

PaperLink(link) ==
  <<"<a href=\"">> \o Txt(link["url"])
  \o <<"\" class=\"paper-link\" target=\"_blank\" rel=\"noopener\">[">>
  \o Txt(link["label"]) \o <<"]</a>">>

generate_paper_links(links) == Join([i \in 1..Len(links) |-> PaperLink(links[i])], " | ")

PubPlaceholder == "assets/img/pub_placeholder.png"

T_paper_item == "<div class=\"paper-item\">"
T_paper_item_no_image == "<div class=\"paper-item no-image\">"
T_paper_image == "<div class=\"paper-image\">"
T_img_src == "<img src=\""
T_img_alt == "\" alt=\""
T_img_close == "\">"

PaperContent(paper) ==
  LET authors == Get(paper, "authors", "")
      links_html == generate_paper_links(Get(paper, "links", <<>>))
  IN <<"<div class=\"paper-content\">", "<h3 class=\"paper-title\">">> \o Txt(paper["title"])
     \o <<"</h3>", "<p class=\"paper-authors\">">> \o Txt(authors)
     \o <<T_p_end, "<p class=\"paper-venue\">">> \o Txt(paper["venue"])
     \o <<T_p_end, "<div class=\"paper-links\">">> \o links_html
     \o <<T_div_end, T_div_end>>

PaperImage_NoFallback(paper) == Get(paper, "image", "")

\* paper.get("image", placeholder)
PaperImage(paper) == Get(paper, "image", PubPlaceholder)

generate_paper_html(paper, show_image) ==
  IF show_image
    THEN <<T_paper_item, T_paper_image, T_img_src>> \o Txt(PaperImage(paper))
         \o <<T_img_alt>> \o Txt(paper["title"]) \o <<T_img_close, T_div_end>>
         \o PaperContent(paper) \o <<T_div_end>>
    ELSE <<T_paper_item_no_image>> \o PaperContent(paper) \o <<T_div_end>>

T_year_section == "<div class=\"year-section\">"
T_year_section_no_year == "<div class=\"year-section no-year\">"
T_year_heading == "<h2 class=\"year-heading\">"

generate_year_section_HeadingWhenKey(year_group, show_image) ==
  LET papers_html ==
        Join([i \in 1..Len(year_group["papers"]) |->
                generate_paper_html(year_group["papers"][i], show_image)], "\n        ")
  IN IF HasKey(year_group, "year")
       THEN <<T_year_section, T_year_heading>> \o Txt(year_group["year"]) \o <<"</h2>">>
            \o papers_html \o <<T_div_end>>
       ELSE <<T_year_section_no_year>> \o papers_html \o <<T_div_end>>

generate_year_section(year_group, show_image) ==
  LET papers_html ==
        Join([i \in 1..Len(year_group["papers"]) |->
                generate_paper_html(year_group["papers"][i], show_image)], "\n        ")
  IN IF TruthyStr(year_group, "year")
       THEN <<T_year_section, T_year_heading>> \o Txt(year_group["year"]) \o <<"</h2>">>
            \o papers_html \o <<T_div_end>>
       ELSE <<T_year_section_no_year>> \o papers_html \o <<T_div_end>>

generate_publications_html(publications) ==
  Join([i \in 1..Len(publications) |-> generate_year_section(publications[i], TRUE)],
       "\n      ")

generate_conference_abstracts_html_WithImages(abstracts) ==
  IF abstracts = <<>> THEN <<>>
  ELSE Join([i \in 1..Len(abstracts) |-> generate_year_section(abstracts[i], TRUE)],
            "\n      ")

generate_conference_abstracts_html(abstracts) ==
  IF abstracts = <<>> THEN <<>>
  ELSE Join([i \in 1..Len(abstracts) |-> generate_year_section(abstracts[i], FALSE)],
            "\n      ")

T_abstracts_comment == "<!-- Conference Abstracts Section -->"
T_abstracts_divider == "<div class=\"section-divider\">"
T_abstracts_heading == "<h1 class=\"section-title\">Selected Conference Abstracts</h1>"

conference_abstracts_section_Always(conference_abstracts) ==
  <<T_abstracts_comment, T_abstracts_divider, T_abstracts_heading, T_div_end>>
  \o generate_conference_abstracts_html(conference_abstracts)

\* conference_abstracts_html of build_html: empty unless the list is non-empty
conference_abstracts_section(conference_abstracts) ==
  IF conference_abstracts # <<>>
    THEN <<T_abstracts_comment, T_abstracts_divider, T_abstracts_heading, T_div_end>>
         \o generate_conference_abstracts_html(conference_abstracts)
    ELSE <<>>

year_groups_raise(groups) ==
  \/ ~AllHave(groups, {"papers"})
  \/ \E i \in 1..Len(groups) :
       \/ ~AllHave(groups[i]["papers"], {"title", "venue"})
       \/ \E j \in 1..Len(groups[i]["papers"]) :
            ~AllHave(Get(groups[i]["papers"][j], "links", <<>>), {"url", "label"})

publications_build_html_raises(content, sidebar) ==
  \/ meta_raises(content)
  \/ shell_raises(sidebar)
  \/ ~({"intro", "publications"} \subseteq DOMAIN content)
  \/ ~({"title", "description", "links"} \subseteq DOMAIN content["intro"])
  \/ ~AllHave(content["intro"]["links"], {"url", "label"})
  \/ year_groups_raise(content["publications"])
  \/ year_groups_raise(Get(content, "conference_abstracts", <<>>))

publications_build_html(content, sidebar) ==
  LET head0 == get_head_html(content["meta"]["title"], content["meta"]["description"], sidebar)
      head_html == Replace(head0, T_style_end, get_publications_css \o <<T_style_end>>)
      intro_links == generate_intro_links(content["intro"]["links"])
      publications_html == generate_publications_html(content["publications"])
      conference_abstracts == Get(content, "conference_abstracts", <<>>)
      conference_abstracts_html == conference_abstracts_section(conference_abstracts)
      main ==
        <<"<div class=\"pub-intro\">", "<h1>">> \o Txt(content["intro"]["title"])
        \o <<"</h1>", "<p>">> \o Txt(content["intro"]["description"]) \o <<" ">>
        \o intro_links \o <<T_p_end, T_div_end>>
        \o publications_html
        \o conference_abstracts_html
  IN Document(head_html, sidebar, get_nav_html("publications", None), main)

(***************************************************************************)
(* build_teaching.py                                                       *)
(***************************************************************************)
get_teaching_css == <<"/* teaching css */">>

generate_course_html(course) ==
  LET semesters == Join([i \in 1..Len(course["semesters"]) |-> Txt(course["semesters"][i])], ", ")
      host_html == IF TruthyStr(course, "host")
                     THEN <<" <span class=\"course-host\">[Host: ">> \o Txt(course["host"])
                          \o <<"]</span>">>
                     ELSE <<>>
  IN <<"<li class=\"course-list-item\">", "<span class=\"course-code\">">>
     \o Txt(course["code"])
     \o <<T_span_end, "<span class=\"course-name\">">> \o Txt(course["name"])
     \o <<T_span_end, "<span class=\"course-semesters\">(">> \o semesters
     \o <<")</span>">> \o host_html \o <<T_li_end>>

generate_role_section_html(role_group) ==
  LET department == Get(role_group, "department", "")
      courses_html == Join([i \in 1..Len(role_group["courses_list"]) |-> generate_course_html(role_group["courses_list"][i])],
                           "\n          ")
      department_html == IF department # ""
                           THEN <<"<span class=\"role-department\">">> \o Txt(department)
                                \o <<"</span>, ">>
                           ELSE <<>>
  IN <<"<div class=\"role-section\">", "<ul class=\"course-list\">">> \o courses_html
     \o <<"</ul>", "<p class=\"role-description\">">> \o Txt(role_group["description"])
     \o <<T_p_end, "<div class=\"role-meta\">", "<span class=\"role-title\">">>
     \o Txt(role_group["role"]) \o <<"</span>, ">>
     \o department_html \o <<"<span class=\"role-institution\">">>
     \o Txt(role_group["institution"])
     \o <<"</span>, ", "<span class=\"role-location\">">> \o Txt(role_group["location"])
     \o <<T_span_end, "<span class=\"role-period\">(">> \o Txt(role_group["period"])
     \o <<")</span>", T_div_end, T_div_end>>

generate_courses_html(courses) == Join([i \in 1..Len(courses) |-> generate_role_section_html(courses[i])], "\n      ")

generate_student_html(student) ==
  <<"<div class=\"student-item\">", "<div class=\"student-name\">">> \o Txt(student["name"])
  \o <<T_div_end, "<div class=\"student-program\">">> \o Txt(student["program"])
  \o <<" (">> \o Txt(student["period"])
  \o <<")</div>", "<div class=\"student-institution\">">> \o Txt(student["institution"])
  \o <<T_div_end, T_div_end>>

generate_mentoring_category_html(category) ==
  LET students_html == Join([i \in 1..Len(category["students"]) |-> generate_student_html(category["students"][i])],
                            "\n          ")
  IN <<"<div class=\"mentoring-category\">", "<h4 class=\"category-heading\">">>
     \o Txt(category["type"]) \o <<"</h4>">> \o students_html \o <<T_div_end>>

generate_mentoring_html(mentoring) ==
  Join([i \in 1..Len(mentoring) |-> generate_mentoring_category_html(mentoring[i])], "\n        ")

teaching_build_html_raises(content, sidebar) ==
  \/ meta_raises(content)
  \/ shell_raises(sidebar)
  \/ ~({"courses", "mentoring"} \subseteq DOMAIN content)
  \/ ~AllHave(content["courses"],
              {"role", "institution", "location", "period", "description", "courses_list"})
  \/ \E i \in 1..Len(content["courses"]) :
       ~AllHave(content["courses"][i]["courses_list"], {"code", "name", "semesters"})
  \/ ~AllHave(content["mentoring"], {"type", "students"})
  \/ \E i \in 1..Len(content["mentoring"]) :
       ~AllHave(content["mentoring"][i]["students"],
                {"name", "program", "period", "institution"})

teaching_build_html_WithPhilosophy(content, sidebar) ==
  LET head0 == get_head_html(content["meta"]["title"], content["meta"]["description"], sidebar)
      head_html == Replace(head0, T_style_end, get_teaching_css \o <<T_style_end>>)
      main ==
        <<"<section class=\"philosophy-section\">">> \o Txt(Get(content, "philosophy", ""))
        \o <<"</section>">>
        \o <<"<section class=\"courses-section\">", "<h2 class=\"section-heading\">Courses</h2>">>
        \o generate_courses_html(content["courses"])
        \o <<"</section>", "<section class=\"mentoring-section\">",
             "<h2 class=\"section-heading\">Mentoring</h2>">>
        \o generate_mentoring_html(content["mentoring"])
        \o <<"</section>">>
  IN Document(head_html, sidebar, get_nav_html("teaching", None), main)

teaching_build_html(content, sidebar) ==
  LET head0 == get_head_html(content["meta"]["title"], content["meta"]["description"], sidebar)
      head_html == Replace(head0, T_style_end, get_teaching_css \o <<T_style_end>>)
      main ==
        <<"<section class=\"courses-section\">", "<h2 class=\"section-heading\">Courses</h2>">>
        \o generate_courses_html(content["courses"])
        \o <<"</section>", "<section class=\"mentoring-section\">",
             "<h2 class=\"section-heading\">Mentoring</h2>">>
        \o generate_mentoring_html(content["mentoring"])
        \o <<"</section>">>
  IN Document(head_html, sidebar, get_nav_html("teaching", None), main)

(***************************************************************************)
(* The build drivers: main() of the four build scripts.                    *)
(***************************************************************************)
Pages == {"index", "research", "publications", "teaching"}

\* browser tabs showing pages of the site
Tabs == 1..MaxTabs

sidebar_path == "sidebar.json"

content_path(p) ==
  CASE p = "index" -> "content_index.json"
    [] p = "research" -> "content_research.json"
    [] p = "publications" -> "content_publications.json"
    [] p = "teaching" -> "content_teaching.json"

output_path_Shared(p) == "index.html"

output_path(p) ==
  CASE p = "index" -> "index.html"
    [] p = "research" -> "research.html"
    [] p = "publications" -> "publications.html"
    [] p = "teaching" -> "teaching.html"

\* the files main of build_<p>.py names
FilesOf(p) == {sidebar_path, content_path(p), output_path(p)}

Paths == {sidebar_path} \cup {content_path(p) : p \in Pages} \cup {output_path(p) : p \in Pages}

build_html_raises(p, content, sidebar) ==
  CASE p = "index" -> index_build_html_raises(content, sidebar)
    [] p = "research" -> research_build_html_raises(content, sidebar)
    [] p = "publications" -> publications_build_html_raises(content, sidebar)
    [] p = "teaching" -> teaching_build_html_raises(content, sidebar)

build_html(p, content, sidebar) ==
  CASE p = "index" -> index_build_html(content, sidebar)
    [] p = "research" -> research_build_html(content, sidebar)
    [] p = "publications" -> publications_build_html(content, sidebar)
    [] p = "teaching" -> teaching_build_html(content, sidebar)

\* files: absent, not parseable as JSON, a JSON document, or text
AbsentFile == [exists |-> FALSE, valid |-> FALSE, data |-> <<>>]
MalformedFile == [exists |-> TRUE, valid |-> FALSE, data |-> <<>>]
JsonFile(doc) == [exists |-> TRUE, valid |-> TRUE, data |-> doc]
TextFile(text) == [exists |-> TRUE, valid |-> FALSE, data |-> text]

\* print(...) lines of main
ErrorLine_NoName(path) == <<"Error: ", "input file", " not found.">>

ErrorLine(path) == <<"Error: ", path, " not found.">>
LoadingSidebarLine == <<"Loading sidebar from ", sidebar_path, "...">>
LoadingContentLine(p) == <<"Loading content from ", content_path(p), "...">>
BuildingLine(p) == <<"Building ", output_path(p), "...">>
WritingLine_Building(p) == <<"Building ", output_path(p), "...">>

WritingLine(p) == <<"Writing to ", output_path(p), "...">>
DoneLine == <<"Done!">>

\* not <path>.exists()
InputMissing_SidebarTwice(dir, path) == ~dir[sidebar_path].exists

InputMissing(dir, path) == ~dir[path].exists

\* the statement of main that follows each step when it neither returns nor raises
AfterStep_OpenBeforeBuild(step) ==
  CASE step = "check_sidebar" -> "check_content"
    [] step = "check_content" -> "load_sidebar"
    [] step = "load_sidebar" -> "load_content"
    [] step = "load_content" -> "open"
    [] step = "open" -> "build"
    [] step = "build" -> "write"
    [] step = "write" -> "finish"

AfterStep(step) ==
  CASE step = "check_sidebar" -> "check_content"
    [] step = "check_content" -> "load_sidebar"
    [] step = "load_sidebar" -> "load_content"
    [] step = "load_content" -> "build"
    [] step = "build" -> "open"
    [] step = "open" -> "write"
    [] step = "write" -> "finish"

VARIABLES
  fs,          \* the working directory: path -> file
  pc,          \* per driver: position in main
  sidebar,     \* per driver: local variable sidebar
  content,     \* per driver: local variable content
  html,        \* per driver: local variable html
  console,     \* per driver: lines printed by the current run
  rc,          \* per driver: value returned by main (-1: none)
  steps,       \* per driver: steps performed by the current run, in order
  before,      \* per driver: the output file as it was when the run started
  written,     \* per driver: the text each completed write left in the output file
  runs,        \* number of driver invocations so far
  call,        \* the renderer function applied last, with its arguments
  result,      \* the markup it returned
  storage,     \* the browser's local storage of the site's origin
  page,        \* per tab: the generated page loaded in it ("none": no page)
  dataTheme,   \* per tab: data-theme attribute of the document element
  themeIcon,   \* per tab: className of the icon inside the theme button
  navActive,   \* per tab: whether .nav-links carries the class active
  last,        \* the most recent browser event
  lastToggle,  \* the theme set by the most recent theme toggle ("none": no toggle yet)
  toggler,     \* the tab of the most recent theme toggle (0: no toggle yet)
  navClicks    \* per tab: clicks on .nav-toggle since the load or the last link click,
               \* counted modulo 2

driverVars == <<fs, pc, sidebar, content, html, console, rc, steps, before, written, runs>>
callVars == <<call, result>>
browserVars == <<storage, page, dataTheme, themeIcon, navActive, last, lastToggle, toggler,
                 navClicks>>
vars == <<fs, pc, sidebar, content, html, console, rc, steps, before, written, runs, call, result,
          storage, page, dataTheme, themeIcon, navActive, last, lastToggle, toggler, navClicks>>

Stopped(p) == pc[p] \in {"idle", "exited", "crashed"}

\* python build_<p>.py is started
Start(p) ==
  /\ \A q \in Pages : Stopped(q)
  /\ runs < MaxRuns
  /\ runs' = runs + 1
  /\ pc' = [pc EXCEPT ![p] = "check_sidebar"]
  /\ sidebar' = [sidebar EXCEPT ![p] = None]
  /\ content' = [content EXCEPT ![p] = None]
  /\ html' = [html EXCEPT ![p] = <<>>]
  /\ console' = [console EXCEPT ![p] = <<>>]
  /\ rc' = [rc EXCEPT ![p] = -1]
  /\ steps' = [steps EXCEPT ![p] = <<>>]
  /\ before' = [before EXCEPT ![p] = fs[output_path(p)]]
  /\ UNCHANGED <<fs, written, call, result, browserVars>>

\* if not sidebar_path.exists(): print error, return 1
CheckSidebar(p) ==
  /\ pc[p] = "check_sidebar"
  /\ steps' = [steps EXCEPT ![p] = Append(@, "check_sidebar")]
  /\ IF InputMissing(fs, sidebar_path)
       THEN /\ console' = [console EXCEPT ![p] = Append(@, ErrorLine(sidebar_path))]
            /\ rc' = [rc EXCEPT ![p] = 1]
            /\ pc' = [pc EXCEPT ![p] = "exited"]
       ELSE /\ pc' = [pc EXCEPT ![p] = AfterStep("check_sidebar")]
            /\ UNCHANGED <<console, rc>>
  /\ UNCHANGED <<fs, sidebar, content, html, before, written, runs, call, result, browserVars>>

\* if not content_path.exists(): print error, return 1
CheckContent(p) ==
  /\ pc[p] = "check_content"
  /\ steps' = [steps EXCEPT ![p] = Append(@, "check_content")]
  /\ IF InputMissing(fs, content_path(p))
       THEN /\ console' = [console EXCEPT ![p] = Append(@, ErrorLine(content_path(p)))]
            /\ rc' = [rc EXCEPT ![p] = 1]
            /\ pc' = [pc EXCEPT ![p] = "exited"]
       ELSE /\ pc' = [pc EXCEPT ![p] = AfterStep("check_content")]
            /\ UNCHANGED <<console, rc>>
  /\ UNCHANGED <<fs, sidebar, content, html, before, written, runs, call, result, browserVars>>

\* print("Loading sidebar ..."); sidebar = load_sidebar(sidebar_path)
LoadSidebar(p) ==
  /\ pc[p] = "load_sidebar"
  /\ steps' = [steps EXCEPT ![p] = Append(@, "load_sidebar")]
  /\ console' = [console EXCEPT ![p] = Append(@, LoadingSidebarLine)]
  /\ IF fs[sidebar_path].valid
       THEN /\ sidebar' = [sidebar EXCEPT ![p] = fs[sidebar_path].data]
            /\ pc' = [pc EXCEPT ![p] = AfterStep("load_sidebar")]
       ELSE /\ pc' = [pc EXCEPT ![p] = "crashed"]
            /\ UNCHANGED sidebar
  /\ UNCHANGED <<fs, content, html, rc, before, written, runs, call, result, browserVars>>

\* print("Loading content ..."); content = load_content(content_path)
LoadContent(p) ==
  /\ pc[p] = "load_content"
  /\ steps' = [steps EXCEPT ![p] = Append(@, "load_content")]
  /\ console' = [console EXCEPT ![p] = Append(@, LoadingContentLine(p))]
  /\ IF fs[content_path(p)].valid
       THEN /\ content' = [content EXCEPT ![p] = fs[content_path(p)].data]
            /\ pc' = [pc EXCEPT ![p] = AfterStep("load_content")]
       ELSE /\ pc' = [pc EXCEPT ![p] = "crashed"]
            /\ UNCHANGED content
  /\ UNCHANGED <<fs, sidebar, html, rc, before, written, runs, call, result, browserVars>>

Build_OpenOnError(p) ==
  /\ pc[p] = "build"
  /\ steps' = [steps EXCEPT ![p] = Append(@, "build")]
  /\ console' = [console EXCEPT ![p] = Append(@, BuildingLine(p))]
  /\ IF build_html_raises(p, content[p], sidebar[p])
       THEN /\ pc' = [pc EXCEPT ![p] = AfterStep("build")]
            /\ UNCHANGED html
       ELSE /\ html' = [html EXCEPT ![p] = build_html(p, content[p], sidebar[p])]
            /\ pc' = [pc EXCEPT ![p] = AfterStep("build")]
  /\ UNCHANGED <<fs, sidebar, content, rc, before, written, runs, call, result, browserVars>>

\* print("Building ..."); html = build_html(content, sidebar)
Build(p) ==
  /\ pc[p] = "build"
  /\ steps' = [steps EXCEPT ![p] = Append(@, "build")]
  /\ console' = [console EXCEPT ![p] = Append(@, BuildingLine(p))]
  /\ IF build_html_raises(p, content[p], sidebar[p])
       THEN /\ pc' = [pc EXCEPT ![p] = "crashed"]
            /\ UNCHANGED html
       ELSE /\ html' = [html EXCEPT ![p] = build_html(p, content[p], sidebar[p])]
            /\ pc' = [pc EXCEPT ![p] = AfterStep("build")]
  /\ UNCHANGED <<fs, sidebar, content, rc, before, written, runs, call, result, browserVars>>

\* what open(path, "w") leaves in the file: created or truncated
OpenForWriting_Append(file) == TextFile(file.data)

OpenForWriting(file) == TextFile(<<>>)

\* print("Writing to ..."); open(output_path, "w")
OpenOutput(p) ==
  /\ pc[p] = "open"
  /\ steps' = [steps EXCEPT ![p] = Append(@, "open")]
  /\ console' = [console EXCEPT ![p] = Append(@, WritingLine(p))]
  /\ fs' = [fs EXCEPT ![output_path(p)] = OpenForWriting(@)]
  /\ pc' = [pc EXCEPT ![p] = AfterStep("open")]
  /\ UNCHANGED <<sidebar, content, html, rc, before, written, runs, call, result, browserVars>>

\* f.write(html) and the close at the end of the with block
WriteOutput(p) ==
  /\ pc[p] = "write"
  /\ steps' = [steps EXCEPT ![p] = Append(@, "write")]
  /\ fs' = [fs EXCEPT ![output_path(p)] = TextFile(@.data \o html[p])]
  /\ written' = [written EXCEPT ![p] = Append(@, fs'[output_path(p)].data)]
  /\ pc' = [pc EXCEPT ![p] = AfterStep("write")]
  /\ UNCHANGED <<sidebar, content, html, console, rc, before, runs, call, result, browserVars>>

\* print("Done!"); return 0
Finish(p) ==
  /\ pc[p] = "finish"
  /\ console' = [console EXCEPT ![p] = Append(@, DoneLine)]
  /\ rc' = [rc EXCEPT ![p] = 0]
  /\ pc' = [pc EXCEPT ![p] = "exited"]
  /\ UNCHANGED <<fs, sidebar, content, html, steps, before, written, runs, call, result, browserVars>>

(***************************************************************************)
(* Input documents of the build drivers.                                   *)
(***************************************************************************)
Meta == [title |-> "Title", description |-> "Description"]

MinimalSidebar ==
  [nav_brand |-> "Brand", profile |-> [name |-> "N"],
   footer |-> [copyright_year |-> "2025", copyright_name |-> "N"]]

RichSidebar ==
  [nav_brand |-> "Brand",
   profile |-> [name |-> "N", image |-> "me.png", bio_lines |-> <<"A", "B">>, bio |-> "A"],
   sidebar_links |-> <<[label |-> "Mail", icon |-> "fas fa-envelope", url |-> "mailto:n"],
                       [label |-> "Boston"]>>,
   footer |-> [copyright_year |-> "2025", copyright_name |-> "N"],
   theme |-> [light |-> [accent_color |-> "#111111"], dark |-> [link_color |-> "#222222"]],
   cv_file |-> "my_cv.pdf"]

\* no footer: get_footer_html raises KeyError
BadSidebar == [nav_brand |-> "Brand", profile |-> [name |-> "N"]]

Kinds == {"absent", "malformed", "bad", "minimal", "rich"}

SidebarFile(kind) ==
  CASE kind = "absent" -> AbsentFile
    [] kind = "malformed" -> MalformedFile
    [] kind = "bad" -> JsonFile(BadSidebar)
    [] kind = "minimal" -> JsonFile(MinimalSidebar)
    [] kind = "rich" -> JsonFile(RichSidebar)

PaperPlain == [title |-> "T1", venue |-> "V1"]
PaperFull ==
  [title |-> "T2", venue |-> "V2", authors |-> "Au", image |-> "a.png",
   links |-> <<[url |-> "u1", label |-> "pdf"], [url |-> "u2", label |-> "bibtex"]>>]

MinimalContent(p) ==
  CASE p = "index" -> [meta |-> Meta, bio |-> <<>>, affiliations |-> <<>>, news |-> <<>>]
    [] p = "research" -> [meta |-> Meta, interests |-> <<>>, projects |-> <<>>]
    [] p = "publications" ->
         [meta |-> Meta, intro |-> [title |-> "Pubs", description |-> "D", links |-> <<>>],
          publications |-> <<>>]
    [] p = "teaching" -> [meta |-> Meta, courses |-> <<>>, mentoring |-> <<>>]

RichContent(p) ==
  CASE p = "index" ->
         [meta |-> Meta, bio |-> <<"A", "B">>,
          affiliations |-> <<[institution |-> "I1", role |-> "R1",
                              logo_icon |-> <<"logo", ".svg">>, department |-> <<"D1", "D2">>],
                             [institution |-> "I2", role |-> "R2"]>>,
          degrees |-> <<[degree |-> "PhD", field |-> "F", institution |-> "I1",
                         location |-> "L"]>>,
          news |-> <<[date |-> "Jan", content |-> "A"], [date |-> "Feb", content |-> "B"]>>,
          sponsors |-> <<[logo |-> "s.png", name |-> "S"]>>]
    [] p = "research" ->
         [meta |-> Meta, interests |-> <<"A", "B">>,
          projects |-> <<[title |-> "P1", description |-> <<"A", "B">>, image |-> "p.png"],
                         [title |-> "P2", description |-> <<>>]>>]
    [] p = "publications" ->
         [meta |-> Meta,
          intro |-> [title |-> "Pubs", description |-> "D",
                     links |-> <<[url |-> "u", label |-> "Scholar"]>>],
          publications |-> <<[year |-> "2024", papers |-> <<PaperPlain, PaperFull>>],
                             [papers |-> <<PaperFull>>]>>,
          conference_abstracts |-> <<[year |-> "2023", papers |-> <<PaperFull>>]>>]
    [] p = "teaching" ->
         [meta |-> Meta, philosophy |-> "A",
          courses |-> <<[role |-> "TA", institution |-> "I1", department |-> "D1",
                         location |-> "L", period |-> "2020", description |-> "A",
                         courses_list |-> <<[code |-> "C1", name |-> "N1",
                                             semesters |-> <<"F20", "S21">>, host |-> "H"],
                                            [code |-> "C2", name |-> "N2",
                                             semesters |-> <<>>]>>]>>,
          mentoring |-> <<[type |-> "Graduate",
                           students |-> <<[name |-> "S1", program |-> "MS",
                                           period |-> "2021", institution |-> "I1"]>>]>>]

\* a required key is missing: build_html raises KeyError
BadContent(p) ==
  CASE p = "index" -> [meta |-> Meta, bio |-> <<>>, affiliations |-> <<>>]
    [] p = "research" -> [meta |-> [title |-> "Title"], interests |-> <<>>, projects |-> <<>>]
    [] p = "publications" ->
         [meta |-> Meta, intro |-> [title |-> "Pubs", description |-> "D", links |-> <<>>],
          publications |-> <<[year |-> "2024", papers |-> <<[title |-> "T1"]>>]>>]
    [] p = "teaching" -> [meta |-> Meta, courses |-> <<>>]

ContentFile(p, kind) ==
  CASE kind = "absent" -> AbsentFile
    [] kind = "malformed" -> MalformedFile
    [] kind = "bad" -> JsonFile(BadContent(p))
    [] kind = "minimal" -> JsonFile(MinimalContent(p))
    [] kind = "rich" -> JsonFile(RichContent(p))

StaleOutput == TextFile(<<"<stale>">>)

\* the working directory before the first run
Directory(sk, ck, prior) ==
  [path \in Paths |->
     IF path = sidebar_path THEN SidebarFile(sk)
     ELSE IF \E p \in Pages : path = content_path(p)
       THEN ContentFile(CHOOSE p \in Pages : path = content_path(p), ck)
     ELSE prior]

NoCall == [fn |-> "none", args |-> <<>>]

InitDriver ==
  /\ pc = [p \in Pages |-> "idle"]
  /\ sidebar = [p \in Pages |-> None]
  /\ content = [p \in Pages |-> None]
  /\ html = [p \in Pages |-> <<>>]
  /\ console = [p \in Pages |-> <<>>]
  /\ rc = [p \in Pages |-> -1]
  /\ steps = [p \in Pages |-> <<>>]
  /\ before = [p \in Pages |-> fs[output_path(p)]]
  /\ written = [p \in Pages |-> <<>>]
  /\ runs = 0

\* no page is open in any tab
NoTabs ==
  /\ page = [t \in Tabs |-> "none"]
  /\ dataTheme = [t \in Tabs |-> "none"]
  /\ themeIcon = [t \in Tabs |-> "none"]
  /\ navActive = [t \in Tabs |-> FALSE]
  /\ last = [kind |-> "none", tab |-> 0]
  /\ lastToggle = "none"
  /\ toggler = 0
  /\ navClicks = [t \in Tabs |-> 0]

Init ==
  /\ fs \in {Directory(sk, ck, prior) :
               sk \in Kinds, ck \in Kinds, prior \in {AbsentFile, StaleOutput}}
  /\ InitDriver
  /\ call = NoCall
  /\ result = <<>>
  /\ storage = None
  /\ NoTabs

Next ==
  \E p \in Pages :
    \/ Start(p)
    \/ CheckSidebar(p)
    \/ CheckContent(p)
    \/ LoadSidebar(p)
    \/ LoadContent(p)
    \/ Build(p)
    \/ OpenOutput(p)
    \/ WriteOutput(p)
    \/ Finish(p)

Spec == Init /\ [][Next]_vars

(***************************************************************************)
(* The build scripts started as separate processes that run at once: a     *)
(* script may start while runs of the other scripts are under way.         *)
(***************************************************************************)
StartConcurrently(p) ==
  /\ Stopped(p)
  /\ runs < MaxRuns
  /\ runs' = runs + 1
  /\ pc' = [pc EXCEPT ![p] = "check_sidebar"]
  /\ sidebar' = [sidebar EXCEPT ![p] = None]
  /\ content' = [content EXCEPT ![p] = None]
  /\ html' = [html EXCEPT ![p] = <<>>]
  /\ console' = [console EXCEPT ![p] = <<>>]
  /\ rc' = [rc EXCEPT ![p] = -1]
  /\ steps' = [steps EXCEPT ![p] = <<>>]
  /\ before' = [before EXCEPT ![p] = fs[output_path(p)]]
  /\ UNCHANGED <<fs, written, call, result, browserVars>>

NextConcurrent ==
  \E p \in Pages :
    \/ StartConcurrently(p)
    \/ CheckSidebar(p)
    \/ CheckContent(p)
    \/ LoadSidebar(p)
    \/ LoadContent(p)
    \/ Build(p)
    \/ OpenOutput(p)
    \/ WriteOutput(p)
    \/ Finish(p)

SpecConcurrent == Init /\ [][NextConcurrent]_vars

(***************************************************************************)
(* The renderer functions applied to bounded inputs: each behaviour        *)
(* applies one function to one input.                                      *)
(***************************************************************************)
TextVals == {"A", "B"}

\* page identifiers handed to get_nav_html
ActiveIds == {"bio", "research", "publications", "teaching", "cv", "index", "home", ""}

NavSidebars == {None, [nav_brand |-> "Brand"], [nav_brand |-> "Brand", cv_file |-> "my_cv.pdf"]}

Profiles ==
  Opt(Opt(Opt([name : {"N"}], "bio", {""} \cup TextVals),
          "bio_lines", SeqsUpTo(TextVals, MaxLines)),
      "image", {"me.png"})

ProfileSidebars ==
  {[nav_brand |-> "Brand", profile |-> pr,
    footer |-> [copyright_year |-> "2025", copyright_name |-> "N"]] : pr \in Profiles}

Papers == Opt([title : {"T"}, venue : {"V"}], "image", {"a.png"})

\* year groups with and without a year, and one whose year and image are empty strings
YearGroups ==
  Opt([papers : SeqsUpTo(Papers, MaxPapers)], "year", {"2024"})
  \cup {[papers |-> <<[title |-> "T", venue |-> "V", image |-> ""]>>, year |-> ""]}

PublicationLists == SeqsUpTo(YearGroups, MaxGroups)

\* logo_icon values: image paths, glyph names, other suffixes, the empty string
LogoIcons ==
  {<<"logo", ".svg">>, <<"img/a", ".png">>, <<"fa-university">>, <<"fa-svg">>,
   <<"logo", ".bmp">>, <<"logo", ".SVG">>, <<>>}

Affiliations ==
  Opt(Opt([institution : {"I"}, role : {"R"}], "logo_icon", LogoIcons),
      "department", {<<"D1", "D2">>})

CallGetNavHtml ==
  /\ call = NoCall
  /\ \E active_page \in ActiveIds, sb \in NavSidebars :
       /\ call' = [fn |-> "get_nav_html", args |-> <<active_page, sb>>]
       /\ result' = get_nav_html(active_page, sb)
       /\ UNCHANGED <<driverVars, browserVars>>

CallGetSidebarHtml ==
  /\ call = NoCall
  /\ \E sb \in ProfileSidebars :
       /\ call' = [fn |-> "get_sidebar_html", args |-> <<sb>>]
       /\ result' = get_sidebar_html(sb)
       /\ UNCHANGED <<driverVars, browserVars>>

CallGeneratePublicationsHtml ==
  /\ call = NoCall
  /\ \E publications \in PublicationLists :
       /\ call' = [fn |-> "generate_publications_html", args |-> <<publications>>]
       /\ result' = generate_publications_html(publications)
       /\ UNCHANGED <<driverVars, browserVars>>

\* colour groups of a theme: any subset of the four keys, a value possibly empty
ColorGroups(tag) ==
  Opt(Opt(Opt(Opt({None}, "accent_color", {"", tag \o "1"}), "accent_hover", {tag \o "2"}),
          "link_color", {tag \o "3"}), "link_hover", {"", tag \o "4"})

Themes == Opt(Opt({None}, "light", ColorGroups("#L")), "dark", ColorGroups("#D"))

ThemeSidebars == {None} \cup Opt({[nav_brand |-> "Brand"]}, "theme", Themes)

CallGetBaseCss ==
  /\ call = NoCall
  /\ \E sb \in ThemeSidebars :
       /\ call' = [fn |-> "get_base_css", args |-> <<sb>>]
       /\ result' = get_base_css(sb)
       /\ UNCHANGED <<driverVars, browserVars>>

\* the list generators that take a flat list, and those whose items hold a list
FlatGenerators ==
  {"generate_bio_paragraphs", "generate_affiliations", "generate_degrees", "generate_news",
   "generate_sponsors", "generate_projects_html", "generate_paper_links",
   "_generate_sidebar_links"}

NestedGenerators == {"generate_publications_html", "generate_courses_html", "generate_mentoring_html"}

\* an input item of a flat generator that shows the text v
ListItem(gen, v) ==
  CASE gen = "generate_bio_paragraphs" -> v
    [] gen = "generate_affiliations" -> [institution |-> v, role |-> "R"]
    [] gen = "generate_degrees" -> [degree |-> v, field |-> "F", institution |-> "I", location |-> "L"]
    [] gen = "generate_news" -> [date |-> v, content |-> "C"]
    [] gen = "generate_sponsors" -> [logo |-> v, name |-> "S"]
    [] gen = "generate_projects_html" -> [title |-> v, description |-> <<"P">>]
    [] gen = "generate_paper_links" -> [url |-> v, label |-> "pdf"]
    [] gen = "_generate_sidebar_links" ->
         IF v = "A" THEN [label |-> v, url |-> "u"] ELSE [label |-> v, icon |-> "fas fa-map"]

\* an input item of a nested generator: a group that shows k and holds items showing vs
GroupItem(gen, k, vs) ==
  CASE gen = "generate_publications_html" ->
         [year |-> k, papers |-> [i \in 1..Len(vs) |-> [title |-> vs[i], venue |-> "V"]]]
    [] gen = "generate_courses_html" ->
         [role |-> k, institution |-> "I", location |-> "L", period |-> "2020",
          description |-> "D",
          courses_list |-> [i \in 1..Len(vs) |-> [code |-> vs[i], name |-> "N", semesters |-> <<"F20">>]]]
    [] gen = "generate_mentoring_html" ->
         [type |-> k,
          students |-> [i \in 1..Len(vs) |->
                          [name |-> vs[i], program |-> "MS", period |-> "2021", institution |-> "I"]]]

ApplyGenerator(gen, items) ==
  CASE gen = "generate_bio_paragraphs" -> generate_bio_paragraphs(items)
    [] gen = "generate_affiliations" -> generate_affiliations(items)
    [] gen = "generate_degrees" -> generate_degrees(items)
    [] gen = "generate_news" -> generate_news(items)
    [] gen = "generate_sponsors" -> generate_sponsors(items)
    [] gen = "generate_projects_html" -> generate_projects_html(items)
    [] gen = "generate_paper_links" -> generate_paper_links(items)
    [] gen = "_generate_sidebar_links" -> _generate_sidebar_links(items)
    [] gen = "generate_publications_html" -> generate_publications_html(items)
    [] gen = "generate_courses_html" -> generate_courses_html(items)
    [] gen = "generate_mentoring_html" -> generate_mentoring_html(items)

CallFlatGenerator ==
  /\ call = NoCall
  /\ \E gen \in FlatGenerators, vs \in SeqsUpTo(TextVals, MaxItems) :
       /\ call' = [fn |-> "flat_generator", args |-> <<gen, vs>>]
       /\ result' = ApplyGenerator(gen, [i \in 1..Len(vs) |-> ListItem(gen, vs[i])])
       /\ UNCHANGED <<driverVars, browserVars>>

CallNestedGenerator ==
  /\ call = NoCall
  /\ \E gen \in NestedGenerators,
        gs \in SeqsUpTo(TextVals \X SeqsUpTo(TextVals, MaxLines), MaxGroups) :
       /\ call' = [fn |-> "nested_generator", args |-> <<gen, gs>>]
       /\ result' = ApplyGenerator(gen, [i \in 1..Len(gs) |-> GroupItem(gen, gs[i][1], gs[i][2])])
       /\ UNCHANGED <<driverVars, browserVars>>

CallGenerateAffiliations ==
  /\ call = NoCall
  /\ \E affiliations \in SeqsUpTo(Affiliations, MaxAffs) :
       /\ call' = [fn |-> "generate_affiliations", args |-> <<affiliations>>]
       /\ result' = generate_affiliations(affiliations)
       /\ UNCHANGED <<driverVars, browserVars>>

\* sidebar links: any subset of label, icon and url, the url possibly empty
SidebarLinks ==
  Opt(Opt(Opt({None}, "label", {"Mail"}), "icon", {"fas fa-envelope"}), "url", {"", "mailto:n"})

CallGenerateSidebarLinks ==
  /\ call = NoCall
  /\ \E links \in SeqsUpTo(SidebarLinks, MaxLinks) :
       /\ call' = [fn |-> "_generate_sidebar_links", args |-> <<links>>]
       /\ result' = _generate_sidebar_links(links)
       /\ UNCHANGED <<driverVars, browserVars>>

\* year groups of a publications content document
ContentGroups ==
  Opt([papers : {<<>>, <<[title |-> "T", venue |-> "V"]>>,
                 <<[title |-> "T", venue |-> "V", image |-> "a.png"],
                   [title |-> "T", venue |-> "V"]>>}],
      "year", {"2023"})

PublicationsContents ==
  Opt([meta : {Meta}, intro : {[title |-> "Pubs", description |-> "D", links |-> <<>>]},
       publications : SeqsUpTo(ContentGroups, 1)],
      "conference_abstracts", SeqsUpTo(ContentGroups, MaxGroups))

CallGenerateConferenceAbstractsHtml ==
  /\ call = NoCall
  /\ \E abstracts \in SeqsUpTo(ContentGroups, MaxGroups) :
       /\ call' = [fn |-> "generate_conference_abstracts_html", args |-> <<abstracts>>]
       /\ result' = generate_conference_abstracts_html(abstracts)
       /\ UNCHANGED <<driverVars, browserVars>>

CallBuildPublications ==
  /\ call = NoCall
  /\ \E c \in PublicationsContents :
       /\ call' = [fn |-> "build_html", args |-> <<"publications", c, MinimalSidebar>>]
       /\ result' = publications_build_html(c, MinimalSidebar)
       /\ UNCHANGED <<driverVars, browserVars>>

CallBuildHtml ==
  /\ call = NoCall
  /\ \E p \in Pages, c \in {"minimal", "rich"}, sb \in {MinimalSidebar, RichSidebar} :
       /\ call' = [fn |-> "build_html", args |-> <<p, ContentFile(p, c).data, sb>>]
       /\ result' = build_html(p, ContentFile(p, c).data, sb)
       /\ UNCHANGED <<driverVars, browserVars>>

\* meta texts: plain ones, and the text of a closing style tag
MetaTitles == {"Title", "</style>"}
MetaDescriptions == {"Description", "</style>"}

CallBuildHtmlWithMeta ==
  /\ call = NoCall
  /\ \E p \in Pages, title \in MetaTitles, description \in MetaDescriptions :
       LET c == [MinimalContent(p) EXCEPT !["meta"] = [title |-> title, description |-> description]]
       IN /\ call' = [fn |-> "build_html", args |-> <<p, c, MinimalSidebar>>]
          /\ result' = build_html(p, c, MinimalSidebar)
          /\ UNCHANGED <<driverVars, browserVars>>

\* the object d without the key k
Without(d, k) == [x \in DOMAIN d \ {k} |-> d[x]]

\* teaching content documents with the philosophy absent, empty or set
TeachingContents ==
  Opt({MinimalContent("teaching"), Without(RichContent("teaching"), "philosophy")},
      "philosophy", {"", "Teaching is learning."})

CallBuildTeaching ==
  /\ call = NoCall
  /\ \E c \in TeachingContents, sb \in {MinimalSidebar, RichSidebar} :
       /\ call' = [fn |-> "build_html", args |-> <<"teaching", c, sb>>]
       /\ result' = teaching_build_html(c, sb)
       /\ UNCHANGED <<driverVars, browserVars>>

InitRender ==
  /\ fs = Directory("absent", "absent", AbsentFile)
  /\ InitDriver
  /\ call = NoCall
  /\ result = <<>>
  /\ storage = None
  /\ NoTabs

NextRender ==
  \/ CallGetNavHtml
  \/ CallGetSidebarHtml
  \/ CallGeneratePublicationsHtml
  \/ CallGenerateAffiliations
  \/ CallGenerateSidebarLinks
  \/ CallFlatGenerator
  \/ CallNestedGenerator
  \/ CallGetBaseCss
  \/ CallGenerateConferenceAbstractsHtml
  \/ CallBuildPublications
  \/ CallBuildHtml
  \/ CallBuildHtmlWithMeta
  \/ CallBuildTeaching

SpecRender == InitRender /\ [][NextRender]_vars

(***************************************************************************)
(* The script of get_js_code running in a browser: tabs that share the     *)
(* local storage of the site, each showing one generated page.             *)
(***************************************************************************)

\* localStorage.getItem('theme') || 'light'
SavedTheme_AlwaysLight(store) == "light"

SavedTheme(store) == IF TruthyStr(store, "theme") THEN store["theme"] ELSE "light"

\* theme === 'dark' ? 'fas fa-sun' : 'fas fa-moon'
IconFor_MoonForDark(theme) == IF theme = "dark" THEN "fas fa-moon" ELSE "fas fa-sun"

IconFor(theme) == IF theme = "dark" THEN "fas fa-sun" ELSE "fas fa-moon"

RunScript_SavesTheme(t, p) ==
  /\ page' = [page EXCEPT ![t] = p]
  /\ navActive' = [navActive EXCEPT ![t] = FALSE]
  /\ dataTheme' = [dataTheme EXCEPT ![t] = SavedTheme(storage)]
  /\ themeIcon' = [themeIcon EXCEPT ![t] = IconFor(SavedTheme(storage))]
  /\ last' = [kind |-> "load", tab |-> t]
  /\ navClicks' = [navClicks EXCEPT ![t] = 0]
  /\ storage' = [theme |-> SavedTheme(storage)]
  /\ UNCHANGED <<lastToggle, toggler>>

\* the page is parsed and the script at the end of <body> runs
RunScript(t, p) ==
  /\ page' = [page EXCEPT ![t] = p]
  /\ navActive' = [navActive EXCEPT ![t] = FALSE]
  /\ dataTheme' = [dataTheme EXCEPT ![t] = SavedTheme(storage)]
  /\ themeIcon' = [themeIcon EXCEPT ![t] = IconFor(SavedTheme(storage))]
  /\ last' = [kind |-> "load", tab |-> t]
  /\ navClicks' = [navClicks EXCEPT ![t] = 0]
  /\ UNCHANGED <<storage, lastToggle, toggler>>

\* a generated page is opened or reloaded in tab t
LoadPage(t) ==
  \E p \in Pages :
    /\ RunScript(t, p)
    /\ UNCHANGED <<driverVars, callVars>>

ClickThemeToggle_FromStorage(t) ==
  /\ page[t] # "none"
  /\ LET currentTheme == SavedTheme(storage)
         newTheme == IF currentTheme = "dark" THEN "light" ELSE "dark"
     IN /\ dataTheme' = [dataTheme EXCEPT ![t] = newTheme]
        /\ storage' = [theme |-> newTheme]
        /\ themeIcon' = [themeIcon EXCEPT ![t] = IconFor(newTheme)]
        /\ lastToggle' = newTheme
  /\ toggler' = t
  /\ last' = [kind |-> "toggle", tab |-> t]
  /\ UNCHANGED <<page, navActive, navClicks, driverVars, callVars>>

\* click on .theme-toggle
ClickThemeToggle(t) ==
  /\ page[t] # "none"
  /\ LET currentTheme == dataTheme[t]
         newTheme == IF currentTheme = "dark" THEN "light" ELSE "dark"
     IN /\ dataTheme' = [dataTheme EXCEPT ![t] = newTheme]
        /\ storage' = [theme |-> newTheme]
        /\ themeIcon' = [themeIcon EXCEPT ![t] = IconFor(newTheme)]
        /\ lastToggle' = newTheme
  /\ toggler' = t
  /\ last' = [kind |-> "toggle", tab |-> t]
  /\ UNCHANGED <<page, navActive, navClicks, driverVars, callVars>>

\* click on .nav-toggle: navLinks.classList.toggle('active')
ClickNavToggle(t) ==
  /\ page[t] # "none"
  /\ navActive' = [navActive EXCEPT ![t] = ~@]
  /\ navClicks' = [navClicks EXCEPT ![t] = (@ + 1) % 2]
  /\ last' = [kind |-> "nav_toggle", tab |-> t]
  /\ UNCHANGED <<storage, page, dataTheme, themeIcon, lastToggle, toggler, driverVars, callVars>>

ClickNavLink_KeepsActive(t) ==
  \E i \in 1..Len(pages("cv.pdf")) :
    LET pg == pages("cv.pdf")[i]
    IN /\ page[t] # "none"
       /\ IF pg.new_tab
            THEN /\ last' = [kind |-> "nav_link", tab |-> t]
                 /\ navClicks' = [navClicks EXCEPT ![t] = 0]
                 /\ UNCHANGED <<storage, page, dataTheme, themeIcon, navActive, lastToggle,
                                toggler>>
            ELSE RunScript(t, CHOOSE p \in Pages : output_path(p) = pg.href)
       /\ UNCHANGED <<driverVars, callVars>>

\* click on an anchor of .nav-links: the listener removes active, then the
\* browser follows the link: in the same tab, or for the CV in a new context
ClickNavLink(t) ==
  \E i \in 1..Len(pages("cv.pdf")) :
    LET pg == pages("cv.pdf")[i]
    IN /\ page[t] # "none"
       /\ IF pg.new_tab
            THEN /\ navActive' = [navActive EXCEPT ![t] = FALSE]
                 /\ last' = [kind |-> "nav_link", tab |-> t]
                 /\ navClicks' = [navClicks EXCEPT ![t] = 0]
                 /\ UNCHANGED <<storage, page, dataTheme, themeIcon, lastToggle, toggler>>
            ELSE RunScript(t, CHOOSE p \in Pages : output_path(p) = pg.href)
       /\ UNCHANGED <<driverVars, callVars>>

\* the tab is closed
CloseTab(t) ==
  /\ page[t] # "none"
  /\ page' = [page EXCEPT ![t] = "none"]
  /\ dataTheme' = [dataTheme EXCEPT ![t] = "none"]
  /\ themeIcon' = [themeIcon EXCEPT ![t] = "none"]
  /\ navActive' = [navActive EXCEPT ![t] = FALSE]
  /\ last' = [kind |-> "close", tab |-> t]
  /\ navClicks' = [navClicks EXCEPT ![t] = 0]
  /\ UNCHANGED <<storage, lastToggle, toggler, driverVars, callVars>>

InitBrowser ==
  /\ fs = Directory("absent", "absent", AbsentFile)
  /\ InitDriver
  /\ call = NoCall
  /\ result = <<>>
  /\ storage \in {None, [theme |-> "light"], [theme |-> "dark"]}
  /\ NoTabs

NextBrowser ==
  \E t \in Tabs :
    \/ LoadPage(t)
    \/ ClickThemeToggle(t)
    \/ ClickNavToggle(t)
    \/ ClickNavLink(t)
    \/ CloseTab(t)

SpecBrowser == InitBrowser /\ [][NextBrowser]_vars

(***************************************************************************)
(* Operators used to read markup and histories in the properties.          *)
(***************************************************************************)
Range(s) == {s[i] : i \in 1..Len(s)}

\* number of occurrences of tok in s
Count(s, tok) == Cardinality({i \in 1..Len(s) : s[i] = tok})

IsPrefix(s, t) == Len(s) <= Len(t) /\ \A i \in 1..Len(s) : s[i] = t[i]

\* the value that follows each occurrence of open ("" when close follows at once)
Following(s, open, close) ==
  LET at == {i \in 1..(Len(s) - 1) : s[i] = open}
      nth(k) == CHOOSE i \in at : Cardinality({j \in at : j < i}) = k - 1
  IN [k \in 1..Cardinality(at) |->
        IF s[nth(k) + 1] = close THEN "" ELSE s[nth(k) + 1]]

\* the pieces of s between occurrences of sep
RECURSIVE Split(_, _)
Split(s, sep) ==
  IF \A i \in 1..Len(s) : s[i] # sep THEN <<s>>
  ELSE LET k == CHOOSE i \in 1..Len(s) : s[i] = sep /\ \A j \in 1..(i - 1) : s[j] # sep
       IN <<SubSeq(s, 1, k - 1)>> \o Split(SubSeq(s, k + 1, Len(s)), sep)

\* the tokens strictly between the first open and the first close after it
Between(s, open, close) ==
  LET a == CHOOSE i \in 1..Len(s) : s[i] = open /\ \A j \in 1..(i - 1) : s[j] # open
      b == CHOOSE i \in (a + 1)..Len(s) : s[i] = close /\ \A j \in (a + 1)..(i - 1) : s[j] # close
  IN SubSeq(s, a + 1, b - 1)

\* the entries of a navigation list, and what an entry shows
NavEntries(nav) == Split(nav, T_nav_sep)
EntryLabel(e) == e[Len(e) - 2]
EntryHref(e) == e[3]
ActiveEntries(nav) == {i \in 1..Len(NavEntries(nav)) : T_active \in Range(NavEntries(nav)[i])}
NewTabEntries(nav) == {i \in 1..Len(NavEntries(nav)) : T_new_tab \in Range(NavEntries(nav)[i])}

ContentPageIds == {"bio", "research", "publications", "teaching"}

StepOrder ==
  <<"check_sidebar", "check_content", "load_sidebar", "load_content", "build", "open", "write">>

\* the documents in the input files of driver p
SidebarDoc == fs[sidebar_path].data
ContentDoc(p) == fs[content_path(p)].data

\* both inputs of driver p parse and hold every key the renderer requires
ValidInputs(p) ==
  /\ fs[sidebar_path].valid
  /\ fs[content_path(p)].valid
  /\ ~build_html_raises(p, ContentDoc(p), SidebarDoc)

HasLine(lines, path) ==
  \E i \in 1..Len(lines) : "Error: " \in Range(lines[i]) /\ path \in Range(lines[i])

(***************************************************************************)
(* Properties of the build drivers (specification Spec).                   *)
(***************************************************************************)

\* C1: when sidebar.json does not exist, a driver that has made its check has
\* printed an error line naming sidebar.json, has returned 1, and the output
\* file is as it was before the run (absent, or its prior content).
C1_MissingSidebar ==
  \A p \in Pages :
    (~fs[sidebar_path].exists /\ pc[p] \notin {"idle", "check_sidebar"}) =>
      /\ pc[p] = "exited"
      /\ rc[p] = 1
      /\ HasLine(console[p], sidebar_path)
      /\ fs[output_path(p)] = before[p]

C1_Witness ==
  \E p \in Pages :
    /\ ~fs[sidebar_path].exists
    /\ pc[p] = "exited"
    /\ rc[p] = 1
    /\ fs[output_path(p)] = StaleOutput

\* C2: when sidebar.json exists and the content file does not, a driver that
\* has made both checks has printed an error naming the content file and has
\* returned 1 with no load, render or write step performed: sidebar.json is
\* not loaded and the output file is untouched.
C2_MissingContent ==
  \A p \in Pages :
    (/\ fs[sidebar_path].exists
     /\ ~fs[content_path(p)].exists
     /\ pc[p] \notin {"idle", "check_sidebar", "check_content"}) =>
      /\ pc[p] = "exited"
      /\ rc[p] = 1
      /\ HasLine(console[p], content_path(p))
      /\ steps[p] = <<"check_sidebar", "check_content">>
      /\ sidebar[p] = None
      /\ content[p] = None
      /\ html[p] = <<>>
      /\ fs[output_path(p)] = before[p]

C2_Witness ==
  \E p \in Pages :
    /\ fs[sidebar_path].valid
    /\ ~fs[content_path(p)].exists
    /\ pc[p] = "exited"
    /\ rc[p] = 1
    /\ fs[output_path(p)] = StaleOutput

\* C3: the steps of a run occur in the order check, load sidebar, load
\* content, render, write, each at most once; the output file is opened only
\* after render has returned the complete document, and is untouched before.
C3_StepOrder ==
  \A p \in Pages :
    /\ IsPrefix(steps[p], StepOrder)
    /\ "open" \in Range(steps[p]) =>
         /\ ~build_html_raises(p, content[p], sidebar[p])
         /\ html[p] = build_html(p, content[p], sidebar[p])
    /\ "open" \notin Range(steps[p]) => fs[output_path(p)] = before[p]

C3_Witness == \E p \in Pages : steps[p] = StepOrder /\ pc[p] = "exited"

\* C4: with a valid content document and sidebar document, a run of any
\* driver ends by returning 0, and its output file then holds one document
\* with exactly one <html>, one <head> and one <body> element.
C4_OneDocument ==
  \A p \in Pages :
    (ValidInputs(p) /\ pc[p] \in {"exited", "crashed"}) =>
      /\ pc[p] = "exited"
      /\ rc[p] = 0
      /\ fs[output_path(p)].exists
      /\ LET doc == fs[output_path(p)].data
         IN /\ doc[1] = T_doctype
            /\ doc[Len(doc)] = T_html_end
            /\ \A tag \in {T_html, T_html_end, T_head, T_head_end, T_body, T_body_end} :
                 Count(doc, tag) = 1

C4_Witness ==
  \E p \in Pages :
    /\ ValidInputs(p)
    /\ pc[p] = "exited"
    /\ rc[p] = 0
    /\ before[p] = StaleOutput
    /\ Count(fs[output_path(p)].data, T_body) = 1

\* C5: every completed write of a driver leaves the same text in the output
\* file, the document rendered from the input files, whether the output file
\* was absent or had other content before.
C5_Idempotent ==
  \A p \in Pages :
    \A i \in 1..Len(written[p]) :
      /\ written[p][i] = written[p][1]
      /\ written[p][i] = build_html(p, ContentDoc(p), SidebarDoc)

C5_Witness ==
  \E p \in Pages :
    /\ Len(written[p]) >= 2
    /\ pc[p] = "exited"
    /\ fs[output_path(p)].data = written[p][1]

\* an input of driver p does not parse, or lacks a key the renderer requires
FailingInputs(p) ==
  /\ fs[sidebar_path].exists
  /\ fs[content_path(p)].exists
  /\ \/ ~fs[sidebar_path].valid
     \/ ~fs[content_path(p)].valid
     \/ build_html_raises(p, ContentDoc(p), SidebarDoc)

\* C13: when both input files exist and one of them is malformed JSON, or a
\* key the renderer requires is absent from the content or sidebar document,
\* a run never opens the output file, which stays as it was before the run,
\* and the run ends with an uncaught exception: main returns neither 1 nor 0.
C13_UncaughtFailure ==
  \A p \in Pages :
    FailingInputs(p) =>
      /\ "open" \notin Range(steps[p])
      /\ fs[output_path(p)] = before[p]
      /\ rc[p] = -1
      /\ pc[p] \in {"idle", "check_sidebar", "check_content", "load_sidebar",
                    "load_content", "build", "crashed"}
      /\ pc[p] = "crashed" =>
           steps[p][Len(steps[p])] \in {"load_sidebar", "load_content", "build"}

C13_Witness ==
  \E p \in Pages :
    /\ fs[sidebar_path].valid
    /\ fs[content_path(p)].valid
    /\ build_html_raises(p, ContentDoc(p), SidebarDoc)
    /\ pc[p] = "crashed"
    /\ steps[p] = <<"check_sidebar", "check_content", "load_sidebar", "load_content", "build">>
    /\ fs[output_path(p)] = StaleOutput

\* the first words of the lines of a console that are among the given ones
Prefixes(lines, words) ==
  LET kept == SelectSeq(lines, LAMBDA l : l[1] \in words)
  IN [i \in 1..Len(kept) |-> kept[i][1]]

\* C18: a run that returns 0 has printed the lines "Loading sidebar from
\* sidebar.json...", "Building <output>...", "Writing to <output>..." and
\* "Done!" in this order, each once; "Done!" is printed only when the output
\* file holds the written document; a run that returns 1 for a missing input
\* has printed none of these lines, only the error line.
C18_ProgressLines ==
  \A p \in Pages :
    LET progress == Prefixes(console[p], {"Loading sidebar from ", "Building ", "Writing to ", "Done!"})
    IN /\ rc[p] = 0 =>
            /\ progress = <<"Loading sidebar from ", "Building ", "Writing to ", "Done!">>
            /\ <<"Loading sidebar from ", sidebar_path, "...">> \in Range(console[p])
            /\ <<"Building ", output_path(p), "...">> \in Range(console[p])
            /\ <<"Writing to ", output_path(p), "...">> \in Range(console[p])
       /\ "Done!" \in Range(progress) =>
            /\ steps[p] = StepOrder
            /\ fs[output_path(p)] = TextFile(html[p])
            /\ console[p][Len(console[p])] = <<"Done!">>
       /\ rc[p] = 1 =>
            /\ progress = <<>>
            /\ Len(console[p]) = 1
            /\ console[p][1][1] = "Error: "
       /\ IsPrefix(progress, <<"Loading sidebar from ", "Building ", "Writing to ", "Done!">>)

C18_Witness ==
  \E p \in Pages :
    /\ rc[p] = 0
    /\ Len(console[p]) = 5
    /\ console[p][5] = <<"Done!">>
    /\ console[p][4] = <<"Writing to ", output_path(p), "...">>
    /\ fs[output_path(p)].data = html[p]

\* the shared base style sheet in the head of a built document: from <style>
\* to the end of the base rules, before the page's own CSS
BaseCssOf(doc) ==
  LET a == CHOOSE i \in 1..Len(doc) : doc[i] = T_style
      b == CHOOSE i \in 1..Len(doc) : doc[i] = "/* responsive */"
  IN SubSeq(doc, a + 1, b)

\* the driver p has completed a run and written its page
Built(p) == pc[p] = "exited" /\ rc[p] = 0

\* C17: the pages built from one sidebar document carry the same base style
\* sheet, with the theme colours the sidebar declares.
C17_SameBaseCss ==
  \A p \in Pages, q \in Pages :
    (Built(p) /\ Built(q)) =>
      BaseCssOf(fs[output_path(p)].data) = BaseCssOf(fs[output_path(q)].data)

(***************************************************************************)
(* Properties of concurrent runs (specification SpecConcurrent).           *)
(***************************************************************************)

\* C15: when build scripts of different pages run at once, the output files
\* are pairwise distinct and no script's output is a file another script
\* names; a script's output file is as it was until the script itself opens
\* it, and every completed write leaves in it the document rendered from the
\* script's own inputs, as a run of the script alone does.
C15_DisjointOutputs ==
  \A p \in Pages :
    /\ \A q \in Pages \ {p} :
         /\ output_path(p) # output_path(q)
         /\ output_path(p) \notin FilesOf(q)
    /\ "open" \notin Range(steps[p]) => fs[output_path(p)] = before[p]
    /\ pc[p] = "write" => fs[output_path(p)] = TextFile(<<>>)
    /\ \A i \in 1..Len(written[p]) :
         written[p][i] = build_html(p, ContentDoc(p), SidebarDoc)
    /\ (pc[p] = "exited" /\ rc[p] = 0) =>
         fs[output_path(p)] = TextFile(build_html(p, ContentDoc(p), SidebarDoc))

C15_Witness ==
  \E p \in Pages, q \in Pages :
    /\ p # q
    /\ pc[p] = "finish"
    /\ pc[q] = "write"
    /\ before[p] = StaleOutput
    /\ html[q] # <<>>
    /\ fs[output_path(p)] = TextFile(html[p])
    /\ fs[output_path(q)] = TextFile(<<>>)

(***************************************************************************)
(* Properties of the renderer functions (specification SpecRender).        *)
(***************************************************************************)
NavLabels(nav) == [i \in 1..Len(NavEntries(nav)) |-> EntryLabel(NavEntries(nav)[i])]

LabelOf(page_id) ==
  CASE page_id = "bio" -> "Biography"
    [] page_id = "research" -> "Research"
    [] page_id = "publications" -> "Publications"
    [] page_id = "teaching" -> "Teaching"
    [] page_id = "cv" -> "CV"

\* the navigation list inside a built document
NavOfDocument(doc) == Between(doc, "<ul class=\"nav-links\">", "</ul>")

\* C6: for each of the identifiers bio, research, publications and teaching,
\* get_nav_html marks exactly one anchor active, the entry of that page; and
\* every document built by a page renderer marks exactly one entry active,
\* the one that links to the page itself.
C6_OwnEntryActive ==
  /\ (call.fn = "get_nav_html" /\ call.args[1] \in ContentPageIds) =>
       /\ Count(result, T_active) = 1
       /\ \A i \in ActiveEntries(result) :
            EntryLabel(NavEntries(result)[i]) = LabelOf(call.args[1])
  /\ call.fn = "build_html" =>
       /\ Count(result, T_active) = 1
       /\ Cardinality(ActiveEntries(NavOfDocument(result))) = 1
       /\ \A i \in ActiveEntries(NavOfDocument(result)) :
            EntryHref(NavEntries(NavOfDocument(result))[i]) = output_path(call.args[1])

C6_Witness ==
  \/ call.fn = "get_nav_html" /\ call.args[1] = "research" /\ ActiveEntries(result) = {2}
  \/ call.fn = "build_html" /\ call.args[1] = "teaching"
       /\ ActiveEntries(NavOfDocument(result)) = {4}

\* C7 as claimed: every identifier other than bio, research, publications and
\* teaching yields markup without an active anchor.
C7_Original ==
  (call.fn = "get_nav_html" /\ call.args[1] \notin ContentPageIds) =>
    Count(result, T_active) = 0

\* C7, amended: every identifier other than bio, research, publications,
\* teaching and cv yields the five entries without an active anchor; the
\* identifier cv marks the CV entry, and only it, active.
C7_NoActiveEntry ==
  call.fn = "get_nav_html" =>
    /\ Len(NavEntries(result)) = 5
    /\ call.args[1] \notin (ContentPageIds \cup {"cv"}) => Count(result, T_active) = 0
    /\ call.args[1] = "cv" =>
         /\ Count(result, T_active) = 1
         /\ \A i \in ActiveEntries(result) : EntryLabel(NavEntries(result)[i]) = "CV"

C7_Witness ==
  /\ call.fn = "get_nav_html"
  /\ call.args[1] = ""
  /\ Len(NavEntries(result)) = 5
  /\ ActiveEntries(result) = {}

\* C8: for every input get_nav_html emits exactly the five entries Biography,
\* Research, Publications, Teaching, CV in this order, and the CV entry alone
\* opens in a new browsing context.
C8_FiveEntries ==
  call.fn = "get_nav_html" =>
    /\ NavLabels(result) = <<"Biography", "Research", "Publications", "Teaching", "CV">>
    /\ NewTabEntries(result) = {5}
    /\ Count(result, T_new_tab) = 1

C8_Witness ==
  /\ call.fn = "get_nav_html"
  /\ call.args[2] = [nav_brand |-> "Brand", cv_file |-> "my_cv.pdf"]
  /\ EntryHref(NavEntries(result)[5]) = "my_cv.pdf"
  /\ NewTabEntries(result) = {5}

BioLines(markup) == Following(markup, T_bio_line_open, T_span_end)

\* C9 as claimed: bio_lines of n entries and no bio give exactly the n bio-line
\* elements in input order and no bio paragraph; a bio alone gives exactly one
\* bio paragraph and no bio-line element.
C9_Original ==
  call.fn = "get_sidebar_html" =>
    LET profile == call.args[1]["profile"]
    IN /\ (HasKey(profile, "bio_lines") /\ ~HasKey(profile, "bio")) =>
            /\ BioLines(result) = profile["bio_lines"]
            /\ Count(result, T_bio_p_open) = 0
       /\ (HasKey(profile, "bio") /\ ~HasKey(profile, "bio_lines")) =>
            /\ Count(result, T_bio_p_open) = 1
            /\ Count(result, T_bio_line_open) = 0

\* C9, amended: bio_lines of n entries and no bio give exactly the n bio-line
\* elements in input order and no bio paragraph; a non-empty bio alone gives
\* exactly one bio paragraph, holding the bio, and no bio-line element; an
\* empty bio alone gives no bio element at all.
C9_BioForms ==
  call.fn = "get_sidebar_html" =>
    LET profile == call.args[1]["profile"]
    IN /\ (HasKey(profile, "bio_lines") /\ ~HasKey(profile, "bio")) =>
            /\ BioLines(result) = profile["bio_lines"]
            /\ Count(result, T_bio_p_open) = 0
       /\ (HasKey(profile, "bio") /\ ~HasKey(profile, "bio_lines")) =>
            /\ Count(result, T_bio_line_open) = 0
            /\ Count(result, T_bio_div_open) = 0
            /\ IF profile["bio"] = ""
                 THEN Count(result, T_bio_p_open) = 0
                 ELSE Following(result, T_bio_p_open, T_p_end) = <<profile["bio"]>>

C9_Witness ==
  /\ call.fn = "get_sidebar_html"
  /\ ~HasKey(call.args[1]["profile"], "bio")
  /\ HasKey(call.args[1]["profile"], "bio_lines")
  /\ call.args[1]["profile"]["bio_lines"] = <<"B", "A">>
  /\ BioLines(result) = <<"B", "A">>

\* the image each paper of the publications list is to show, in list order
ExpectedImages(publications) ==
  Concat([g \in 1..Len(publications) |->
            [k \in 1..Len(publications[g]["papers"]) |->
               IF HasKey(publications[g]["papers"][k], "image")
                 THEN publications[g]["papers"][k]["image"]
                 ELSE "assets/img/pub_placeholder.png"]])

\* C10: in the publications list every paper has one image reference: the
\* placeholder assets/img/pub_placeholder.png when the paper has no image key,
\* the value of the image key otherwise.
C10_Placeholder ==
  call.fn = "generate_publications_html" =>
    Following(result, T_img_src, T_img_alt) = ExpectedImages(call.args[1])

C10_Witness ==
  /\ call.fn = "generate_publications_html"
  /\ Len(call.args[1]) = 1
  /\ Len(call.args[1][1]["papers"]) = 2
  /\ ~HasKey(call.args[1][1]["papers"][1], "image")
  /\ HasKey(call.args[1][1]["papers"][2], "image")
  /\ Following(result, T_img_src, T_img_alt) = <<"assets/img/pub_placeholder.png", "a.png">>

\* the fragments of a list generator's output, one per input item
Fragments(markup, sep) == IF markup = <<>> THEN <<>> ELSE Split(markup, sep)

\* the logo_icon of an affiliation, "fa-university" when the key is absent
LogoOf(aff) == IF HasKey(aff, "logo_icon") THEN aff["logo_icon"] ELSE <<"fa-university">>

\* C11: every affiliation is rendered with exactly one logo form: a
\* background-image reference to the logo_icon path when logo_icon ends in
\* one of .png .jpg .jpeg .svg .gif .webp, and an icon glyph whose class is
\* the logo_icon value, with no background image, otherwise.
C11_LogoForm ==
  call.fn = "generate_affiliations" =>
    LET affiliations == call.args[1]
        frags == Fragments(result, "\n        ")
    IN /\ Len(frags) = Len(affiliations)
       /\ \A i \in 1..Len(affiliations) :
            LET logo == LogoOf(affiliations[i])
                image == /\ logo # <<>>
                         /\ logo[Len(logo)] \in {".png", ".jpg", ".jpeg", ".svg", ".gif", ".webp"}
            IN /\ Count(frags[i], T_logo_bg_open) + Count(frags[i], T_logo_glyph_open) = 1
               /\ Count(frags[i], T_logo_bg_open) = (IF image THEN 1 ELSE 0)
               /\ image => Between(frags[i], T_logo_bg_open, T_logo_bg_close) = logo
               /\ ~image => Between(frags[i], T_logo_glyph_open, T_logo_glyph_close) = logo

C11_Witness ==
  /\ call.fn = "generate_affiliations"
  /\ Len(call.args[1]) = 2
  /\ LogoOf(call.args[1][1]) = <<"img/a", ".png">>
  /\ LogoOf(call.args[1][2]) = <<"fa-university">>
  /\ Count(result, T_logo_bg_open) = 1
  /\ Count(result, T_logo_glyph_open) = 1

\* the part of a built document from <body> on
BodyOf(doc) ==
  LET b == CHOOSE i \in 1..Len(doc) : doc[i] = T_body
  IN SubSeq(doc, b, Len(doc))

\* number of year sections, with or without a year heading
YearSections(markup) ==
  Count(markup, T_year_section) + Count(markup, T_year_section_no_year)

\* C12: the body of a built publications document holds the
\* conference-abstracts heading exactly once when conference_abstracts is a
\* non-empty list; when the list is empty or the key is absent it holds no
\* such heading, no divider, and no year section besides those of the
\* publications list.
C12_AbstractsHeading ==
  (call.fn = "build_html" /\ call.args[1] = "publications") =>
    LET c == call.args[2]
        abstracts == IF HasKey(c, "conference_abstracts") THEN c["conference_abstracts"] ELSE <<>>
        body == BodyOf(result)
        heading == "<h1 class=\"section-title\">Selected Conference Abstracts</h1>"
    IN /\ Count(body, heading) = (IF abstracts # <<>> THEN 1 ELSE 0)
       /\ Count(body, "<div class=\"section-divider\">") = Count(body, heading)
       /\ YearSections(body) = Len(c["publications"]) + Len(abstracts)
       /\ abstracts = <<>> => Count(body, T_paper_item_no_image) = 0

C12_Witness ==
  /\ call.fn = "build_html"
  /\ call.args[1] = "publications"
  /\ HasKey(call.args[2], "conference_abstracts")
  /\ call.args[2]["conference_abstracts"] = <<>>
  /\ Len(call.args[2]["publications"]) = 1
  /\ YearSections(BodyOf(result)) = 1
  /\ Count(result, T_abstracts_heading) = 0

\* the token that precedes the text an item shows in its fragment
ShownAfter(gen) ==
  CASE gen = "generate_bio_paragraphs" -> "<p>"
    [] gen = "generate_affiliations" -> "<h3>"
    [] gen = "generate_degrees" -> "<strong>"
    [] gen = "generate_news" -> "<span class=\"news-date\">"
    [] gen = "generate_sponsors" -> "<img src=\""
    [] gen = "generate_projects_html" -> "<h3 class=\"project-title\">"
    [] gen = "generate_paper_links" -> "<a href=\""
    [] gen = "_generate_sidebar_links" -> "\" aria-hidden=\"true\"></i> "
    [] gen = "generate_publications_html" -> "<h2 class=\"year-heading\">"
    [] gen = "generate_courses_html" -> "<span class=\"role-title\">"
    [] gen = "generate_mentoring_html" -> "<h4 class=\"category-heading\">"

\* the same for the items inside a group
ShownAfterInner(gen) ==
  CASE gen = "generate_publications_html" -> "<h3 class=\"paper-title\">"
    [] gen = "generate_courses_html" -> "<span class=\"course-code\">"
    [] gen = "generate_mentoring_html" -> "<div class=\"student-name\">"

\* the separator a generator puts between the fragments of its items
SeparatorOf(gen) ==
  CASE gen \in {"generate_bio_paragraphs", "generate_affiliations", "generate_news",
                "generate_mentoring_html"} -> "\n        "
    [] gen = "generate_degrees" -> "\n            "
    [] gen \in {"generate_sponsors", "_generate_sidebar_links"} -> "\n          "
    [] gen \in {"generate_projects_html", "generate_publications_html",
                "generate_courses_html"} -> "\n      "
    [] gen = "generate_paper_links" -> " | "

\* C19: every list generator emits one fragment per input item, in input
\* order, duplicates included: the texts its fragments show are the texts of
\* the input items in order, and so are those of the items inside each group
\* of a nested list (year groups and papers, role groups and courses,
\* mentoring categories and students).
C19_OneFragmentPerItem ==
  /\ call.fn = "flat_generator" =>
       LET gen == call.args[1]
       IN /\ Len(Fragments(result, SeparatorOf(gen))) = Len(call.args[2])
          /\ Following(result, ShownAfter(gen), "") = call.args[2]
  /\ call.fn = "nested_generator" =>
       LET gen == call.args[1]
           groups == call.args[2]
           frags == Fragments(result, SeparatorOf(gen))
       IN /\ Len(frags) = Len(groups)
          /\ \A i \in 1..Len(groups) :
               /\ Following(frags[i], ShownAfter(gen), "") = <<groups[i][1]>>
               /\ Following(frags[i], ShownAfterInner(gen), "") = groups[i][2]

C19_Witness ==
  /\ call = [fn |-> "nested_generator",
             args |-> <<"generate_courses_html", <<<<"B", <<"A", "A">>>>, <<"B", <<>>>>>>>>]
  /\ Count(result, "<li class=\"course-list-item\">") = 2
  /\ Count(result, "<div class=\"role-section\">") = 2

\* the papers of a list of year groups, in order
PapersOf(groups) == Concat([g \in 1..Len(groups) |-> groups[g]["papers"]])

\* the fragments of the papers in a markup: what follows each opening of a paper item
PaperFragments(markup, open) == Tail(Split(markup, open))

\* C20: the conference abstracts are rendered through the year-group
\* template with one fragment per paper and one year section per group, and
\* no paper fragment holds an image element, the placeholder path or the
\* paper's image, with or without an image key; every paper of the
\* publications list has exactly one image element, also in a built document
\* whose abstracts have image keys.
C20_NoThumbnails ==
  /\ call.fn = "generate_conference_abstracts_html" =>
       LET abstracts == call.args[1]
           frags == PaperFragments(result, "<div class=\"paper-item no-image\">")
       IN /\ Len(frags) = Len(PapersOf(abstracts))
          /\ YearSections(result) = Len(abstracts)
          /\ Count(result, "<div class=\"paper-item\">") = 0
          /\ \A tok \in {"<img src=\"", "<div class=\"paper-image\">",
                          "assets/img/pub_placeholder.png", "a.png"} : Count(result, tok) = 0
          /\ Following(result, "<h3 class=\"paper-title\">", "") =
               [k \in 1..Len(PapersOf(abstracts)) |-> PapersOf(abstracts)[k]["title"]]
  /\ call.fn = "generate_publications_html" =>
       LET frags == PaperFragments(result, "<div class=\"paper-item\">")
       IN /\ Len(frags) = Len(PapersOf(call.args[1]))
          /\ Count(result, "<div class=\"paper-item no-image\">") = 0
          /\ \A k \in 1..Len(frags) : Count(frags[k], "<img src=\"") = 1
  /\ (call.fn = "build_html" /\ call.args[1] = "publications"
      /\ ~HasKey(call.args[3]["profile"], "image")) =>
       Count(BodyOf(result), "<img src=\"") = Len(PapersOf(call.args[2]["publications"]))

C20_Witness ==
  /\ call.fn = "generate_conference_abstracts_html"
  /\ Len(call.args[1]) = 2
  /\ Len(call.args[1][1]["papers"]) = 2
  /\ HasKey(call.args[1][1]["papers"][1], "image")
  /\ ~HasKey(call.args[1][1]["papers"][2], "image")
  /\ Count(result, T_paper_item_no_image) = 2 + Len(call.args[1][2]["papers"])
  /\ Count(result, T_img_src) = 0

\* the declarations of the :root block and of the dark block of a style sheet
LightBlock(css) == Between(css, ":root {", "; }")
DarkBlock(css) == Between(css, "[data-theme=\"dark\"] {", "; }")

\* the value a block declares for a variable ("" when none follows the name)
Declared(block, name) ==
  LET i == CHOOSE k \in 1..Len(block) : block[k] = name
  IN IF i = Len(block) \/ block[i + 1] \in {"; --accent-hover: ", "; --action-link-color: ",
                                            "; --action-link-hover: "}
       THEN "" ELSE block[i + 1]

\* the colour a sidebar declares under theme.<mode>.<key>, or the default
ThemeColor(sb, mode, key, default) ==
  IF /\ sb # None
     /\ HasKey(sb, "theme")
     /\ HasKey(sb["theme"], mode)
     /\ HasKey(sb["theme"][mode], key)
    THEN sb["theme"][mode][key]
    ELSE default

\* C16: each of the eight theme colours of the CSS variable blocks is the
\* value the sidebar declares under theme.light / theme.dark for it, and is
\* its own fixed default exactly when the key, its group, the theme object or
\* the sidebar is absent, whatever the other seven are.
C16_ThemeColors ==
  call.fn = "get_base_css" =>
    LET sb == call.args[1]
        light == LightBlock(result)
        dark == DarkBlock(result)
    IN /\ Declared(light, "--accent-color: ") = ThemeColor(sb, "light", "accent_color", "#0D9488")
       /\ Declared(light, "; --accent-hover: ") = ThemeColor(sb, "light", "accent_hover", "#0F766E")
       /\ Declared(light, "; --action-link-color: ") = ThemeColor(sb, "light", "link_color", "#0066cc")
       /\ Declared(light, "; --action-link-hover: ") = ThemeColor(sb, "light", "link_hover", "#004499")
       /\ Declared(dark, "--accent-color: ") = ThemeColor(sb, "dark", "accent_color", "#2DD4BF")
       /\ Declared(dark, "; --accent-hover: ") = ThemeColor(sb, "dark", "accent_hover", "#5EEAD4")
       /\ Declared(dark, "; --action-link-color: ") = ThemeColor(sb, "dark", "link_color", "#60A5FA")
       /\ Declared(dark, "; --action-link-hover: ") = ThemeColor(sb, "dark", "link_hover", "#93C5FD")

C16_Witness ==
  /\ call.fn = "get_base_css"
  /\ call.args[1] = [nav_brand |-> "Brand",
                     theme |-> [dark |-> [accent_hover |-> "#D2", link_color |-> "#D3"]]]
  /\ LightBlock(result) = <<"--accent-color: ", "#0D9488", "; --accent-hover: ", "#0F766E",
                            "; --action-link-color: ", "#0066cc",
                            "; --action-link-hover: ", "#004499">>
  /\ DarkBlock(result) = <<"--accent-color: ", "#2DD4BF", "; --accent-hover: ", "#D2",
                           "; --action-link-color: ", "#D3",
                           "; --action-link-hover: ", "#93C5FD">>

\* C27: the sidebar markup of every profile holds at most one bio element:
\* with a non-empty bio_lines and a bio, the bio-line block with one element
\* per line and no bio paragraph, the bio text appearing nowhere; with
\* neither key, or both empty, no bio element of either form; and
\* get_sidebar_html raises no error in any of these cases.
C27_OneBioForm ==
  call.fn = "get_sidebar_html" =>
    LET profile == call.args[1]["profile"]
        lines == IF HasKey(profile, "bio_lines") THEN profile["bio_lines"] ELSE <<>>
        bio == IF HasKey(profile, "bio") THEN profile["bio"] ELSE ""
        blocks == Count(result, "<div class=\"author__bio\">")
        paragraphs == Count(result, "<p class=\"author__bio\">")
    IN /\ ~get_sidebar_html_raises(call.args[1])
       /\ blocks + paragraphs <= 1
       /\ lines # <<>> =>
            /\ blocks = 1
            /\ paragraphs = 0
            /\ BioLines(result) = lines
            /\ Count(result, bio) = Count(lines, bio)
       /\ (lines = <<>> /\ bio = "") =>
            /\ blocks + paragraphs = 0
            /\ Count(result, "<span class=\"bio-line\">") = 0

C27_Witness ==
  /\ call.fn = "get_sidebar_html"
  /\ HasKey(call.args[1]["profile"], "bio")
  /\ HasKey(call.args[1]["profile"], "bio_lines")
  /\ call.args[1]["profile"]["bio"] = "B"
  /\ call.args[1]["profile"]["bio_lines"] = <<"A", "A">>
  /\ Count(result, T_bio_div_open) = 1
  /\ Count(result, T_bio_line_open) = 2
  /\ Count(result, "B") = 0

\* the CSS of page p
PageCss(p) ==
  CASE p = "index" -> get_index_css
    [] p = "research" -> get_research_css
    [] p = "publications" -> get_publications_css
    [] p = "teaching" -> get_teaching_css

\* the style block of a document: from <style> to the first </style> after it
StyleBlock(doc) ==
  LET a == CHOOSE i \in 1..Len(doc) : doc[i] = T_style
      b == CHOOSE i \in (a + 1)..Len(doc) :
             doc[i] = T_style_end /\ \A j \in (a + 1)..(i - 1) : doc[j] # T_style_end
  IN SubSeq(doc, a + 1, b - 1)

\* C28: every built document holds the page's CSS exactly once: its head has
\* one <style> element, and the style block is the base CSS followed by the
\* page CSS; this for every title and description, the text </style> included.
C28_PageCssOnce ==
  call.fn = "build_html" =>
    LET css == PageCss(call.args[1])
        block == StyleBlock(result)
    IN /\ Count(result, T_style) = 1
       /\ \A i \in 1..Len(css) : Count(result, css[i]) = 1
       /\ Len(block) > Len(css)
       /\ SubSeq(block, Len(block) - Len(css) + 1, Len(block)) = css
       /\ block[Len(block) - Len(css)] = "/* responsive */"

After(s, tok) ==
  LET a == CHOOSE i \in 1..Len(s) : s[i] = tok /\ \A j \in 1..(i - 1) : s[j] # tok
  IN SubSeq(s, a + 1, Len(s))

\* C21: every sidebar link gives one list item, in order; the item is an
\* anchor to the url, opening a new context and wrapping icon and label, exactly
\* when the link has a non-empty url, and holds no anchor when the url is
\* absent or empty; in both forms it holds one icon element whose class is the
\* link's icon (fas fa-link when the key is absent) followed by the label.
C21_SidebarLinks ==
  call.fn = "_generate_sidebar_links" =>
    LET links == call.args[1]
        frags == Fragments(result, "\n          ")
    IN /\ Len(frags) = Len(links)
       /\ \A i \in 1..Len(links) :
            LET link == links[i]
                f == frags[i]
                hasUrl == HasKey(link, "url") /\ link["url"] # ""
                icon == IF HasKey(link, "icon") THEN link["icon"] ELSE "fas fa-link"
                label == IF HasKey(link, "label") THEN <<link["label"]>> ELSE <<>>
            IN /\ f[1] = "<li>" /\ f[Len(f)] = "</li>"
               /\ Count(f, "<a href=\"") = (IF hasUrl THEN 1 ELSE 0)
               /\ Count(f, "</a>") = Count(f, "<a href=\"")
               /\ hasUrl =>
                    /\ SubSeq(f, 2, 4) = <<"<a href=\"", link["url"],
                                           "\" target=\"_blank\" rel=\"noopener\">">>
                    /\ After(f, "\" aria-hidden=\"true\"></i> ") = label \o <<"</a>", "</li>">>
               /\ ~hasUrl =>
                    /\ f[2] = "<i class=\""
                    /\ After(f, "\" aria-hidden=\"true\"></i> ") = label \o <<"</li>">>
               /\ Count(f, "<i class=\"") = 1
               /\ Between(f, "<i class=\"", "\" aria-hidden=\"true\"></i> ") = <<icon>>

C21_Witness ==
  /\ call.fn = "_generate_sidebar_links"
  /\ call.args[1] = <<[label |-> "Mail", url |-> ""], [label |-> "Mail", url |-> "mailto:n"]>>
  /\ Count(result, T_link_a_open) = 1
  /\ Count(result, "fas fa-link") = 2

\* C22: a year group whose year is absent or empty is rendered as one
\* header-less block (class year-section no-year) with no year heading, a
\* group with a non-empty year as one block that opens with exactly one year
\* heading showing the year; in both forms the block then holds one paper
\* item per paper of the group, in order, and nothing of another group. The
\* same holds for the groups of the conference abstracts.
C22_YearHeading ==
  call.fn \in {"generate_publications_html", "generate_conference_abstracts_html"} =>
    LET groups == call.args[1]
        frags == Fragments(result, "\n      ")
        item == IF call.fn = "generate_publications_html"
                  THEN "<div class=\"paper-item\">"
                  ELSE "<div class=\"paper-item no-image\">"
    IN /\ Len(frags) = Len(groups)
       /\ \A i \in 1..Len(groups) :
            LET f == frags[i]
                papers == groups[i]["papers"]
                hasYear == HasKey(groups[i], "year") /\ groups[i]["year"] # ""
                first == IF hasYear THEN 5 ELSE 2
            IN /\ Count(f, "<h2 class=\"year-heading\">") = (IF hasYear THEN 1 ELSE 0)
               /\ Count(f, "<div class=\"year-section\">") = (IF hasYear THEN 1 ELSE 0)
               /\ Count(f, "<div class=\"year-section no-year\">") = (IF hasYear THEN 0 ELSE 1)
               /\ hasYear =>
                    SubSeq(f, 1, 4) = <<"<div class=\"year-section\">",
                                        "<h2 class=\"year-heading\">", groups[i]["year"], "</h2>">>
               /\ ~hasYear => f[1] = "<div class=\"year-section no-year\">"
               /\ Count(f, item) = Len(papers)
               /\ papers # <<>> => f[first] = item
               /\ Following(f, "<h3 class=\"paper-title\">", "") =
                    [k \in 1..Len(papers) |-> papers[k]["title"]]
               /\ f[Len(f)] = "</div>"

C22_Witness ==
  /\ call.fn = "generate_publications_html"
  /\ Len(call.args[1]) = 2
  /\ call.args[1][1] = [papers |-> <<[title |-> "T", venue |-> "V", image |-> ""]>>, year |-> ""]
  /\ HasKey(call.args[1][2], "year")
  /\ Len(call.args[1][2]["papers"]) = 2
  /\ Count(result, T_year_heading) = 1
  /\ Count(result, T_year_section_no_year) = 1
  /\ Count(result, T_paper_item) = 3

(***************************************************************************)
(* Properties of the pages the drivers write (specification Spec).         *)
(***************************************************************************)

\* a navigation list without its active marker
Unmarked(nav) == SelectSeq(nav, LAMBDA tok : tok # " class=\"active\"")

\* C26: in every page built from one sidebar document the CV entry of the
\* navigation links to the sidebar's cv_file, or to cv.pdf when the sidebar
\* declares none, and the navigation lists of the built pages are equal up to
\* the active marker.
C26_CvLink ==
  \A p \in Pages :
    Built(p) =>
      LET nav == NavOfDocument(fs[output_path(p)].data)
      IN /\ EntryLabel(NavEntries(nav)[5]) = "CV"
         /\ EntryHref(NavEntries(nav)[5]) =
              (IF HasKey(SidebarDoc, "cv_file") THEN SidebarDoc["cv_file"] ELSE "cv.pdf")
         /\ \A q \in Pages :
              Built(q) => Unmarked(NavOfDocument(fs[output_path(q)].data)) = Unmarked(nav)

(***************************************************************************)
(* Properties of the page script (specification SpecBrowser).              *)
(***************************************************************************)

\* C14: a page load sets data-theme to the value stored under theme in local
\* storage, or to light when the key is unset; hence a load that follows a
\* theme toggle, in the same tab or another and of any generated page, shows
\* the theme the last toggle chose.
C14_ThemeOnLoad ==
  last.kind = "load" =>
    /\ page[last.tab] \in Pages
    /\ dataTheme[last.tab] = (IF HasKey(storage, "theme") THEN storage["theme"] ELSE "light")
    /\ lastToggle # "none" => dataTheme[last.tab] = lastToggle

C14_Witness ==
  /\ last = [kind |-> "load", tab |-> 2]
  /\ lastToggle = "dark"
  /\ page[1] = "index"
  /\ page[2] = "teaching"
  /\ dataTheme[1] = "light"
  /\ dataTheme[2] = "dark"

\* the tabs in which a page is loaded
Loaded == {t \in Tabs : page[t] # "none"}

\* the other of the two themes
Flipped(theme) == IF theme = "dark" THEN "light" ELSE "dark"

\* C23: in every loaded page the theme icon is the sun glyph exactly when
\* data-theme is dark and the moon glyph otherwise; every click on the theme
\* toggle flips the page's data-theme between light and dark and stores the
\* new value, so that from the first click on, in the page that toggled
\* last, the stored theme equals data-theme and both are light or dark.
C23_ThemeToggle ==
  [][/\ \A t \in Tabs :
          page'[t] # "none" =>
            /\ themeIcon'[t] \in {"fas fa-sun", "fas fa-moon"}
            /\ themeIcon'[t] = "fas fa-sun" <=> dataTheme'[t] = "dark"
            /\ toggler' = t =>
                 /\ HasKey(storage', "theme")
                 /\ storage'["theme"] = dataTheme'[t]
                 /\ dataTheme'[t] \in {"light", "dark"}
     /\ last'.kind = "toggle" =>
          /\ toggler' = last'.tab
          /\ dataTheme[last'.tab] \in {"light", "dark"}
          /\ dataTheme'[last'.tab] \in {"light", "dark"} \ {dataTheme[last'.tab]}
    ]_vars

C23_Witness ==
  /\ last = [kind |-> "toggle", tab |-> 1]
  /\ lastToggle = "light"
  /\ dataTheme[1] = "light"
  /\ themeIcon[1] = "fas fa-moon"
  /\ storage = [theme |-> "light"]
  /\ page[2] = "none"

\* C24: local storage holds at most the key theme; it changes only in a click
\* on the theme toggle, and then to light or dark; a page load leaves it as it
\* is, unset or set; a click on the nav toggle or on a navigation link changes
\* neither the storage nor the data-theme or icon of any loaded document.
C24_StorageFrame ==
  [][/\ DOMAIN storage' \subseteq {"theme"}
     /\ storage' # storage =>
          /\ last'.kind = "toggle"
          /\ storage' \in {[theme |-> "light"], [theme |-> "dark"]}
     /\ last'.kind = "load" => storage' = storage
     /\ last'.kind \in {"nav_toggle", "nav_link"} =>
          /\ storage' = storage
          /\ dataTheme' = dataTheme
          /\ themeIcon' = themeIcon
    ]_vars

C24_Witness ==
  /\ storage = None
  /\ last = [kind |-> "nav_link", tab |-> 2]
  /\ page[1] = "research"
  /\ navActive[1]
  /\ dataTheme[1] = "light"
  /\ dataTheme[2] = "light"

\* C25: the navigation panel of a freshly loaded page is without the class
\* active; it carries the class exactly when the number of clicks on the nav
\* toggle since the load or the last click on a navigation link is odd; right
\* after a click on a navigation link it is without the class.
C25_NavPanel ==
  /\ \A t \in Tabs :
       /\ page[t] # "none" => (navActive[t] <=> navClicks[t] = 1)
       /\ page[t] = "none" => ~navActive[t]
  /\ last.kind \in {"load", "nav_link"} => (~navActive[last.tab] /\ navClicks[last.tab] = 0)

C25_Witness ==
  /\ page[1] = "index"
  /\ navClicks[1] = 0
  /\ ~navActive[1]
  /\ navClicks[2] = 1
  /\ navActive[2]
  /\ last = [kind |-> "nav_toggle", tab |-> 1]

\* C30: with pages loaded in two tabs that share the local storage, a click
\* on the theme toggle flips the data-theme of its own document, whatever the
\* storage holds, stores the new value and leaves the other documents as they
\* are; so the stored theme is the data-theme of the document that toggled
\* last, and another document keeps its theme, equal to the stored one or
\* not, until a load applies the stored theme to it.
C30_TwoInstances ==
  [][/\ last'.kind = "toggle" =>
          LET t == last'.tab
          IN /\ dataTheme'[t] = Flipped(dataTheme[t])
             /\ storage' = [theme |-> dataTheme'[t]]
             /\ \A u \in Tabs \ {t} : dataTheme'[u] = dataTheme[u] /\ themeIcon'[u] = themeIcon[u]
     /\ (toggler' # 0 /\ toggler' \in Loaded') => storage'["theme"] = dataTheme'[toggler']
     /\ last'.kind = "load" =>
          dataTheme'[last'.tab] = (IF HasKey(storage, "theme") THEN storage["theme"] ELSE "light")
    ]_vars

C30_Witness ==
  /\ toggler = 2
  /\ last = [kind |-> "toggle", tab |-> 2]
  /\ Loaded = {1, 2}
  /\ dataTheme[2] = "light"
  /\ storage = [theme |-> "light"]
  /\ dataTheme[1] = "dark"

====
